---- MODULE Spec2Model ----
(***************************************************************************)
(* Model of src/app.py (company profile automation).                       *)
(*                                                                         *)
(* Text is modelled by TLA+ strings; a character is a string of length 1.  *)
(* The parsed document (BeautifulSoup) is an external library: a page is   *)
(* given by the elements the code asks the parser for.                     *)
(***************************************************************************)
EXTENDS Integers, Sequences, FiniteSets, TLC

VARIABLES
    \* extract_emails_enhanced
    e_pc,           \* position in the call: "scan", "rank", "done"
    html_content,   \* the argument
    fixture,        \* how the input was built (observation only)
    emails,         \* the local set `emails`
    email_result,   \* the returned list
    prev_result,    \* the list returned by the previous run on the same input
    run,            \* which run on this input is in progress (1 or 2)
    \* verify_website_ownership_with_claude
    v_pc,           \* position in the call: "client", "fetch", "page", "judge", "done"
    client,         \* TRUE when initialize_anthropic_client gave a client
    company_name,   \* the argument
    v_response,     \* the response of requests.get, <<>> before the fetch
    v_answer,       \* message.content[0].text, <<>> when the judge gave none
    judge_calls,    \* number of calls of client.messages.create
    v_raised,       \* TRUE when the except clause ran
    v_result,       \* the returned value, <<>> before the return
    \* analyze_website_content_serpapi
    a_pc,           \* position in the call: "start", "home", "tier0", "homepage", "done"
    website_url,    \* the argument
    soup,           \* the parsed homepage, <<>> before the fetch
    home_emails,    \* the local list `emails`
    page_index,     \* index in priority_contact_pages of the next path
    contact_form,   \* the local variable
    fetched,        \* the URLs requested by the loop, in order
    last_fetch,     \* how the last request of the loop ended
    failures,       \* number of requests of the loop that failed
    positive_at,    \* index of the first path whose page gave a detection, else 0
    fired,          \* <<>> or the page and URL of the last positive detection
    homepage_checked, \* TRUE when detection was run on the homepage
    a_raised,       \* TRUE when the outer except clause ran
    home_status,    \* 0 before the homepage request, -1 when it raised, else the status
    only_404,       \* TRUE while every request of the loop was answered with status 404
    analysis,       \* the returned record, <<>> before the return
    \* extract_facebook_from_website and normalize_facebook_url
    f_pc,           \* position in the call: "links", "loop", "done"; "once", "twice"
    fb_page,        \* the parsed page given to the extractor
    facebook_list,  \* the local list `facebook_links`
    fb_index,       \* index in facebook_list of the candidate under test
    fb_result,      \* the returned value, <<>> before the return
    n_url,          \* the argument of normalize_facebook_url
    n_once,         \* <<>> or the value of normalize_facebook_url(n_url)
    n_twice,        \* <<>> or the value of normalizing n_once[1] again
    \* check_contact_forms_enhanced
    d_pc,           \* position in the call: "modal", "forms", "rest", "done"
    d_page,         \* the parsed page
    d_url,          \* the argument current_url
    form_index,     \* index in soup.find_all('form') of the form under test
    appointment_form_found, \* the local flag
    d_rule,         \* the rule whose return statement was reached, "" before
    d_result,       \* the returned value, <<>> before the return
    \* create_csv_download_serpapi
    c_pc,           \* position in the call: "start", "collect", "extend", "write", "done"
    csv_results,    \* the argument: a list of records, each the list of its keys
    all_fieldnames, \* the local set
    to_visit,       \* the fields of all_fieldnames the loop of line 807 has not visited
    fieldnames,     \* the local list
    csv_output,     \* <<>> before the return, then <<"None">> or <<"text", header line>>
    \* verify_facebook_with_claude and its call in process_companies_with_serpapi
    g_pc,           \* position: "client", "fetch", "parse", "judge", "returned", "recorded"
    g_client,       \* TRUE when initialize_anthropic_client gave a client
    g_url,          \* the argument facebook_url: the page found by the search
    g_status,       \* 0 before the request, else the status of the response
    g_answer,       \* message.content[0].text, <<>> when the judge gave none
    g_judge_calls,  \* number of calls of client.messages.create
    g_raised,       \* "" or the step that raised: "fetch", "parse", "judge"
    g_result,       \* the returned value, <<>> before the return
    g_recorded,     \* result['facebook_page'] after lines 761-767, <<>> before
    \* process_companies_with_serpapi
    p_pc,           \* position: "start", "website", "search", "verify", "analyze",
                    \* "fb_search", "fb_verify", "done"
    companies,      \* the argument: a list of records (dicts)
    given,          \* the records as they were when the function was called
    p_i,            \* index of the company of the current iteration
    result,         \* the local variable `result`, <<>> before the first iteration
    results,        \* the local list `results`
    websites,       \* the list returned by search_with_serpapi for this company
    w_index,        \* index in websites of the candidate under verification
    search_calls,   \* calls of search_with_serpapi made for this company
    verify_log,     \* the candidates given to the verifier for this company, in order
    verdicts,       \* the values the verifier returned, in the same order
    fb_found,       \* the value returned by search_facebook_page_serpapi, <<>> before
    p_raised,       \* "" or the step of this company's iteration that raised
    p_analysis,     \* the value analyze_website_content_serpapi returned, <<>> before
    fb_search_calls, \* calls of search_facebook_page_serpapi made for this company
    fb_verdicts     \* what the calls of verify_facebook_with_claude for this company
                    \* did: "accepted", "rejected" or "raised", in order

evars == <<e_pc, html_content, fixture, emails, email_result, prev_result, run>>
vvars == <<v_pc, client, company_name, v_response, v_answer, judge_calls, v_raised, v_result>>
avars == <<a_pc, website_url, soup, home_emails, page_index, contact_form, fetched,
           last_fetch, failures, positive_at, fired, homepage_checked, a_raised, only_404,
           home_status, analysis>>
fvars == <<f_pc, fb_page, facebook_list, fb_index, fb_result, n_url, n_once, n_twice>>
dvars == <<d_pc, d_page, d_url, form_index, appointment_form_found, d_rule, d_result>>
cvars == <<c_pc, csv_results, all_fieldnames, to_visit, fieldnames, csv_output>>
gvars == <<g_pc, g_client, g_url, g_status, g_answer, g_judge_calls, g_raised,
           g_result, g_recorded>>
pvars == <<p_pc, companies, given, p_i, result, results, websites, w_index, search_calls,
           verify_log, verdicts, fb_found, p_raised, p_analysis, fb_search_calls,
           fb_verdicts>>

\* the variables of the functions other than the one named
e_others == <<vvars, avars, fvars, dvars, cvars, gvars, pvars>>
v_others == <<evars, avars, fvars, dvars, cvars, gvars, pvars>>
a_others == <<evars, vvars, fvars, dvars, cvars, gvars, pvars>>
f_others == <<evars, vvars, avars, dvars, cvars, gvars, pvars>>
d_others == <<evars, vvars, avars, fvars, cvars, gvars, pvars>>
c_others == <<evars, vvars, avars, fvars, dvars, gvars, pvars>>
g_others == <<evars, vvars, avars, fvars, dvars, cvars, pvars>>
p_others == <<evars, vvars, avars, fvars, dvars, cvars, gvars>>

vars == <<evars, vvars, avars, fvars, dvars, cvars, gvars, pvars>>

-----------------------------------------------------------------------------
(* Bounds *)

\* number of text fragments joined into one document
MaxFrags == 2

-----------------------------------------------------------------------------
(* Characters and strings *)

Ch(s, i) == IF i >= 1 /\ i <= Len(s) THEN SubSeq(s, i, i) ELSE ""

CharsOf(s) == {SubSeq(s, i, i) : i \in 1..Len(s)}

\* s[a-1:b] clamped to the string, as Python slices are
Slice(s, a, b) ==
    LET lo == IF a < 1 THEN 1 ELSE a
        hi == IF b > Len(s) THEN Len(s) ELSE b
    IN  IF lo > hi THEN "" ELSE SubSeq(s, lo, hi)

\* printable ASCII: codes 32..95 and 97..126 (a string literal cannot hold
\* code 96, the grave accent)
AsciiLow == " !\"#$%&'()*+,-./0123456789:;<=>?@ABCDEFGHIJKLMNOPQRSTUVWXYZ[\\]^_"
AsciiHigh == "abcdefghijklmnopqrstuvwxyz{|}~"

\* ord(c)
Ord(c) ==
    IF \E i \in 1..Len(AsciiLow) : SubSeq(AsciiLow, i, i) = c
    THEN 31 + (CHOOSE i \in 1..Len(AsciiLow) : SubSeq(AsciiLow, i, i) = c)
    ELSE 96 + (CHOOSE i \in 1..Len(AsciiHigh) : SubSeq(AsciiHigh, i, i) = c)

\* chr(n), for the codes above
Chr(n) ==
    IF n >= 32 /\ n <= 95 THEN SubSeq(AsciiLow, n - 31, n - 31)
    ELSE CHOOSE c \in CharsOf(AsciiHigh) : Ord(c) = n

UpperChars == CharsOf("ABCDEFGHIJKLMNOPQRSTUVWXYZ")
LowerChars == CharsOf("abcdefghijklmnopqrstuvwxyz")
DigitChars == CharsOf("0123456789")
HexChars == CharsOf("0123456789abcdef")
SpaceChars == {" ", "\t", "\n", "\r", "\f"}

LowerTable == [c \in UpperChars |-> Chr(Ord(c) + 32)]
UpperTable == [c \in LowerChars |-> Chr(Ord(c) - 32)]

Max(S) == CHOOSE m \in S : \A k \in S : k <= m

Min(S) == CHOOSE m \in S : \A k \in S : m <= k

Min2(a, b) == IF a < b THEN a ELSE b

RECURSIVE MapStr(_, _)
MapStr(s, table) ==
    IF Len(s) = 0 THEN ""
    ELSE IF Len(s) = 1 THEN (IF s \in DOMAIN table THEN table[s] ELSE s)
    ELSE LET h == Len(s) \div 2
         IN  MapStr(SubSeq(s, 1, h), table) \o MapStr(SubSeq(s, h + 1, Len(s)), table)

\* str.lower() and str.upper() on ASCII text
Lower(s) == MapStr(s, LowerTable)
Upper(s) == MapStr(s, UpperTable)

\* sub in s
Contains(s, sub) ==
    \E i \in 1..(Len(s) - Len(sub) + 1) : SubSeq(s, i, i + Len(sub) - 1) = sub

StartsWith(s, p) == Len(p) <= Len(s) /\ SubSeq(s, 1, Len(p)) = p

EndsWith(s, p) == Len(p) <= Len(s) /\ SubSeq(s, Len(s) - Len(p) + 1, Len(s)) = p

\* any(w in s for w in words)
ContainsAny(s, words) == \E w \in words : Contains(s, w)

\* length of the longest run of characters of class C starting at position i
RunLen(s, i, C) ==
    LET stops == {j \in i..Len(s) : Ch(s, j) \notin C}
    IN  IF i > Len(s) THEN 0
        ELSE IF stops = {} THEN Len(s) - i + 1
        ELSE Min(stops) - i

\* str.strip()
RECURSIVE Strip(_)
Strip(s) ==
    IF Len(s) = 0 THEN s
    ELSE IF Ch(s, 1) \in SpaceChars THEN Strip(SubSeq(s, 2, Len(s)))
    ELSE IF Ch(s, Len(s)) \in SpaceChars THEN Strip(SubSeq(s, 1, Len(s) - 1))
    ELSE s

\* 1-based position of the first character c in s, 0 when absent
IndexOf(s, c) ==
    IF \E i \in 1..Len(s) : Ch(s, i) = c
    THEN CHOOSE i \in 1..Len(s) : Ch(s, i) = c /\ \A j \in 1..(i - 1) : Ch(s, j) # c
    ELSE 0

\* s.split('@')[0]
LocalPart(s) == IF IndexOf(s, "@") = 0 THEN s ELSE SubSeq(s, 1, IndexOf(s, "@") - 1)

\* sep.join(parts)
RECURSIVE Join(_, _)
Join(parts, sep) ==
    IF Len(parts) = 0 THEN ""
    ELSE IF Len(parts) = 1 THEN parts[1]
    ELSE LET h == Len(parts) \div 2
         IN  Join(SubSeq(parts, 1, h), sep) \o sep \o Join(SubSeq(parts, h + 1, Len(parts)), sep)

\* the elements of a sequence
Range(q) == {q[i] : i \in 1..Len(q)}

\* every order in which the elements of a set can be listed
Orderings(S) ==
    {q \in [1..Cardinality(S) -> S] : \A i, j \in 1..Cardinality(S) : i # j => q[i] # q[j]}

-----------------------------------------------------------------------------
(* Bytes *)

RECURSIVE Xor(_, _)
Xor(a, b) ==
    IF a = 0 THEN b
    ELSE IF b = 0 THEN a
    ELSE (((a % 2) + (b % 2)) % 2) + 2 * Xor(a \div 2, b \div 2)

HexDigits == "0123456789abcdef"

HexDigitVal(c) == (CHOOSE i \in 1..16 : SubSeq(HexDigits, i, i) = c) - 1

\* int(h, 16) for one or two hex digits
HexVal(h) ==
    IF Len(h) = 1 THEN HexDigitVal(h)
    ELSE 16 * HexDigitVal(Ch(h, 1)) + HexDigitVal(Ch(h, 2))

\* '%02x' % n
Hex2(n) == Ch(HexDigits, (n \div 16) + 1) \o Ch(HexDigits, (n % 16) + 1)

-----------------------------------------------------------------------------
(* extract_emails_enhanced: Cloudflare-protected addresses *)

cf_url_prefix == "/cdn-cgi/l/email-protection#"
cf_data_prefix == "data-cfemail=\""

\* re.findall(prefix + '([a-f0-9]+)' + closing, s): the captured groups, from
\* position pos on.  The hex run is greedy; no character of the run can stand
\* for the closing character, so only the longest run can match.
cf_match_at(s, p, prefix, closing) ==
    /\ Slice(s, p, p + Len(prefix) - 1) = prefix
    /\ RunLen(s, p + Len(prefix), HexChars) > 0
    /\ closing = "" \/ Ch(s, p + Len(prefix) + RunLen(s, p + Len(prefix), HexChars)) = closing

RECURSIVE cf_findall(_, _, _, _)
cf_findall(s, pos, prefix, closing) ==
    LET starts == {p \in pos..Len(s) : cf_match_at(s, p, prefix, closing)}
    IN  IF starts = {} THEN <<>>
        ELSE LET st == Min(starts) + Len(prefix)
                 n  == RunLen(s, st, HexChars)
             IN  <<SubSeq(s, st, st + n - 1)>>
                     \o cf_findall(s, st + n + Len(closing), prefix, closing)

cf_matches(html) ==
    cf_findall(html, 1, cf_url_prefix, "") \o cf_findall(html, 1, cf_data_prefix, "\"")

\* the decoding loop: key = first byte, then every following pair of digits
\* (a last single digit counts as a byte) XOR key
cf_decode(match) ==
    LET key == HexVal(Slice(match, 1, 2))
        n   == (Len(match) - 1) \div 2      \* len(range(2, len(match), 2))
    IN  Join([k \in 1..n |-> Chr(Xor(HexVal(Slice(match, 2 * k + 1, 2 * k + 2)), key))], "")

\* variant: the length test admits five characters
cf_decoded_seq_min5(html) ==
    LET ms == cf_matches(html)
        dec == [i \in 1..Len(ms) |-> cf_decode(ms[i])]
    IN  SelectSeq(dec, LAMBDA d : Contains(d, "@") /\ Contains(d, ".") /\ Len(d) >= 5)

\* the decoded addresses that are kept, in the order of cf_matches
cf_decoded_seq(html) ==
    LET ms == cf_matches(html)
        dec == [i \in 1..Len(ms) |-> cf_decode(ms[i])]
    IN  SelectSeq(dec, LAMBDA d : Contains(d, "@") /\ Contains(d, ".") /\ Len(d) > 5)

\* what is added to `emails` by the decoding loop
cf_emails(html) == {Lower(d) : d \in Range(cf_decoded_seq(html))}

-----------------------------------------------------------------------------
(* extract_emails_enhanced: the plain-text pattern                          *)
(*   \b[A-Za-z0-9._%+-]+@[A-Za-z0-9.-]+\.[A-Z|a-z]{2,}\b                    *)

WordChars == UpperChars \cup LowerChars \cup DigitChars \cup {"_"}
LocalChars == UpperChars \cup LowerChars \cup DigitChars \cup CharsOf("._%+-")
DomainChars == UpperChars \cup LowerChars \cup DigitChars \cup CharsOf(".-")
TldChars == UpperChars \cup LowerChars \cup {"|"}

\* \b between positions i-1 and i
WordBoundary(s, i) == (Ch(s, i - 1) \in WordChars) # (Ch(s, i) \in WordChars)

\* the last position of the match starting at position i, 0 when there is none.
\* The local part is the longest run (it must be followed by '@', which is not
\* in its class); the domain is the longest prefix of its run that is followed
\* by '.', at least two TLD characters and a word boundary; the TLD is the
\* longest such.
email_match_end(s, i) ==
    IF ~WordBoundary(s, i) THEN 0
    ELSE LET l == RunLen(s, i, LocalChars)
         IN  IF l = 0 \/ Ch(s, i + l) # "@" THEN 0
             ELSE LET d0 == i + l + 1
                      D  == RunLen(s, d0, DomainChars)
                      tlds(d) == {t \in 2..RunLen(s, d0 + d + 1, TldChars) :
                                     WordBoundary(s, d0 + d + 1 + t)}
                      ds == {d \in 1..(D - 1) : Ch(s, d0 + d) = "." /\ tlds(d) # {}}
                 IN  IF ds = {} THEN 0
                     ELSE d0 + Max(ds) + Max(tlds(Max(ds)))

\* re.findall(email_pattern, s, re.IGNORECASE) from position pos on
RECURSIVE email_findall(_, _)
email_findall(s, pos) ==
    LET starts == {p \in pos..Len(s) : email_match_end(s, p) # 0}
    IN  IF starts = {} THEN <<>>
        ELSE LET p == Min(starts)
                 e == email_match_end(s, p)
             IN  <<SubSeq(s, p, e)>> \o email_findall(s, e + 1)

standard_emails(html) == email_findall(html, 1)

\* '\d+' followed by the literal `after` at position i
DigitsThen(s, i, after) ==
    \E n \in 1..RunLen(s, i, DigitChars) :
        Slice(s, i + n, i + n + Len(after) - 1) = after

\* re.search of each entry of exclude_patterns, in the order of the list
exclude_patterns(e) ==
    \/ Contains(e, "@example.")
    \/ Contains(e, "@test.")
    \/ Contains(e, "@domain.")
    \/ Contains(e, "@email.")
    \/ ContainsAny(e, {"@noreply", "@no-reply"})
    \/ ContainsAny(e, {"@support.example", "@info.example", "@contact.example", "@admin.example"})
    \/ Contains(e, "@sentry.")
    \/ Contains(e, "@sentry-next.")
    \/ EndsWith(e, "@sentry.io")
    \/ EndsWith(e, "@sentry.wixpress.com")
    \/ \E x \in {".png", ".jpg", ".jpeg", ".gif", ".svg", ".webp", ".bmp", ".tiff"} : EndsWith(e, x)
    \/ (RunLen(e, 1, HexChars) >= 32 /\ Ch(e, 33) = "@")
    \/ Contains(e, "@2x.")
    \/ Contains(e, "@3x.")
    \/ DigitsThen(e, 1, "@2x.")
    \/ DigitsThen(e, 1, "@3x.")
    \/ \E i \in 1..Len(e) : /\ Ch(e, i) = "_"
                            /\ \E n \in 1..RunLen(e, i + 1, DigitChars) :
                                  /\ Slice(e, i + 1 + n, i + 2 + n) = "x@"
                                  /\ DigitsThen(e, i + 3 + n, "x.")
    \/ \E i \in 1..Len(e) : Ch(e, i) = "@" /\ DigitsThen(e, i + 1, "x.")
    \/ \E i \in 1..Len(e) : /\ Slice(e, i, i + 10) = "placeholder"
                            /\ Contains(Slice(e, i + 11, Len(e)), "@")
    \/ \E i \in 1..Len(e) : /\ Slice(e, i, i + 5) = "loader"
                            /\ Contains(Slice(e, i + 6, Len(e)), "@")

\* re.match of each entry of personal_patterns
personal_patterns(e) ==
    \E p \in {"test@", "example@", "demo@", "sample@"} : StartsWith(e, p)

\* the body of the filtering loop for one match: TRUE when it is appended
is_business_email(email) ==
    /\ ~exclude_patterns(email)
    /\ ~personal_patterns(email)
    /\ ~ContainsAny(email, {".png", ".jpg", ".jpeg", ".gif", ".svg", ".webp"})
    /\ ~(RunLen(email, 1, HexChars) >= 8 /\ Ch(email, RunLen(email, 1, HexChars) + 1) = "@")
    /\ Contains(email, "@") /\ Contains(email, ".") /\ Len(LocalPart(email)) > 0

normalized_emails(html) ==
    LET ms == standard_emails(html)
    IN  [i \in 1..Len(ms) |-> Strip(Lower(ms[i]))]

business_emails(html) == SelectSeq(normalized_emails(html), is_business_email)

\* the set `emails` after emails.update(business_emails)
candidate_emails(html) == cf_emails(html) \cup Range(business_emails(html))

priority_prefixes == {"info@", "contact@", "hello@", "admin@"}

is_priority_email(e) == ContainsAny(e, priority_prefixes)

\* variant: without a prioritised address the whole list is returned
rank_emails_all(email_list) ==
    IF Len(email_list) > 1
    THEN LET priority_emails == SelectSeq(email_list, is_priority_email)
         IN  IF Len(priority_emails) > 0 THEN <<priority_emails[1]>>
             ELSE email_list
    ELSE email_list

\* variant: the first listed address is returned whatever its prefix
rank_emails_first(email_list) ==
    IF Len(email_list) > 1 THEN <<email_list[1]>> ELSE email_list

\* the return statements, given the order in which list(emails) lists the set
rank_emails(email_list) ==
    IF Len(email_list) > 1
    THEN LET priority_emails == SelectSeq(email_list, is_priority_email)
         IN  IF Len(priority_emails) > 0 THEN <<priority_emails[1]>>
             ELSE <<email_list[1]>>
    ELSE email_list

-----------------------------------------------------------------------------
(* Inputs of extract_emails_enhanced *)

\* the obfuscation of an address under a key: hex(key), then hex(byte XOR key)
\* for each character
cf_encode(addr, key) ==
    Hex2(key) \o Join([i \in 1..Len(addr) |-> Hex2(Xor(Ord(Ch(addr, i)), key))], "")

\* the two places where a page carries an obfuscated address
cf_markup(marker, payload) ==
    IF marker = "url"
    THEN "<a href=\"" \o cf_url_prefix \o payload \o "\">mail</a>"
    ELSE "<span " \o cf_data_prefix \o payload \o "\"></span>"

Markers == {"url", "data"}

Keys == 0..255

Addresses == {"jo@ab.co", "Info@Acme.com", "a.b+c@x-y.org", "a@b.c", "sales@local"}

\* pieces of page text
Fragments ==
    { "info@acme.com", "sales@acme.com", "contact@acme.com", "admin@acme.com",
      "noreply@acme.com", "no-reply@mail.acme.com", "bob@example.com",
      "logo@2x.png", "Jane.Doe@Acme.COM", "test@acme.com",
      cf_markup("data", cf_encode("test@acme.com", 66)) }

FragmentLists == UNION {[1..n -> Fragments] : n \in 0..MaxFrags}

EmailInputs ==
    {[kind |-> "text", parts |-> fs] : fs \in FragmentLists}
        \cup {[kind |-> "cf", addr |-> a, key |-> k, marker |-> m] :
                 a \in Addresses, k \in Keys, m \in Markers}

input_html(f) ==
    IF f.kind = "text" THEN Join(f.parts, " ")
    ELSE cf_markup(f.marker, cf_encode(f.addr, f.key))

-----------------------------------------------------------------------------
(* Each function is checked as a process of its own; the variables of the   *)
(* other functions then stay as below.                                     *)

EmailIdle ==
    /\ e_pc = "idle"
    /\ html_content = ""
    /\ fixture = [kind |-> "none"]
    /\ emails = {}
    /\ email_result = <<>>
    /\ prev_result = <<>>
    /\ run = 0

VerifyIdle ==
    /\ v_pc = "idle"
    /\ client = FALSE
    /\ company_name = ""
    /\ v_response = <<>>
    /\ v_answer = <<>>
    /\ judge_calls = 0
    /\ v_raised = FALSE
    /\ v_result = <<>>

FbIdle ==
    /\ f_pc = "idle"
    /\ fb_page = <<>>
    /\ facebook_list = <<>>
    /\ fb_index = 0
    /\ fb_result = <<>>
    /\ n_url = ""
    /\ n_once = <<>>
    /\ n_twice = <<>>

DetectIdle ==
    /\ d_pc = "idle"
    /\ d_page = <<>>
    /\ d_url = ""
    /\ form_index = 0
    /\ appointment_form_found = FALSE
    /\ d_rule = ""
    /\ d_result = <<>>

CsvIdle ==
    /\ c_pc = "idle"
    /\ csv_results = <<>>
    /\ all_fieldnames = {}
    /\ to_visit = {}
    /\ fieldnames = <<>>
    /\ csv_output = <<>>

FbVerifyIdle ==
    /\ g_pc = "idle"
    /\ g_client = FALSE
    /\ g_url = ""
    /\ g_status = 0
    /\ g_answer = <<>>
    /\ g_judge_calls = 0
    /\ g_raised = ""
    /\ g_result = <<>>
    /\ g_recorded = <<>>

ProcessIdle ==
    /\ p_pc = "idle"
    /\ companies = <<>>
    /\ given = <<>>
    /\ p_i = 0
    /\ result = <<>>
    /\ results = <<>>
    /\ websites = <<>>
    /\ w_index = 0
    /\ search_calls = 0
    /\ verify_log = <<>>
    /\ verdicts = <<>>
    /\ fb_found = <<>>
    /\ p_raised = ""
    /\ p_analysis = <<>>
    /\ fb_search_calls = 0
    /\ fb_verdicts = <<>>

AnalyzeIdle ==
    /\ a_pc = "idle"
    /\ website_url = ""
    /\ soup = <<>>
    /\ home_emails = <<>>
    /\ page_index = 0
    /\ contact_form = ""
    /\ fetched = <<>>
    /\ last_fetch = "none"
    /\ failures = 0
    /\ positive_at = 0
    /\ fired = <<>>
    /\ homepage_checked = FALSE
    /\ a_raised = FALSE
    /\ only_404 = FALSE
    /\ home_status = 0
    /\ analysis = <<>>

-----------------------------------------------------------------------------
(* extract_emails_enhanced as a process; it is run twice on each input *)

EmailInit ==
    /\ VerifyIdle
    /\ AnalyzeIdle
    /\ FbIdle
    /\ DetectIdle
    /\ CsvIdle
    /\ FbVerifyIdle
    /\ ProcessIdle
    /\ fixture \in EmailInputs
    /\ html_content = input_html(fixture)
    /\ e_pc = "scan"
    /\ emails = {}
    /\ email_result = <<>>
    /\ prev_result = <<>>
    /\ run = 1

\* lines 328-403: decode the protected addresses, filter the plain matches
EmailScan ==
    /\ e_pc = "scan"
    /\ emails' = candidate_emails(html_content)
    /\ e_pc' = "rank"
    /\ UNCHANGED <<html_content, fixture, email_result, prev_result, run, e_others>>

\* lines 405-415: list(emails) lists the set in an order that depends on the
\* hash seed of the process
EmailRank ==
    /\ e_pc = "rank"
    /\ \E email_list \in Orderings(emails) : email_result' = rank_emails(email_list)
    /\ e_pc' = "done"
    /\ UNCHANGED <<html_content, fixture, emails, prev_result, run, e_others>>

\* the same page is given to the function again
EmailRerun ==
    /\ e_pc = "done"
    /\ run = 1
    /\ run' = 2
    /\ prev_result' = email_result
    /\ emails' = {}
    /\ email_result' = <<>>
    /\ e_pc' = "scan"
    /\ UNCHANGED <<html_content, fixture, e_others>>

EmailNext == EmailScan \/ EmailRank \/ EmailRerun

EmailSpec == EmailInit /\ [][EmailNext]_vars

-----------------------------------------------------------------------------
(* Properties of extract_emails_enhanced *)

\* C6: the function returns a list of length 0 or 1; it is empty exactly when
\* no decoded or filtered plain-text candidate survives, and its element is
\* one of the surviving candidates.
EmailAtMostOneCandidate ==
    e_pc = "done" =>
        /\ Len(email_result) \in {0, 1}
        /\ (Len(email_result) = 0) <=> (emails = {})
        /\ Len(email_result) = 1 => email_result[1] \in emails

EmailNarrowedToOne ==
    /\ e_pc = "done"
    /\ Cardinality(emails) >= 2
    /\ Len(email_result) = 1
    /\ email_result[1] \in emails

\* C7: with two or more surviving addresses exactly one is returned, and when
\* one of them has the local part info the returned one is a prioritised
\* address, never a non-prioritised one, wherever info@ stands in the page.
InfoPreferredOverPlain ==
    (e_pc = "done" /\ Cardinality(emails) >= 2) =>
        /\ Len(email_result) = 1
        /\ (\E c \in emails : LocalPart(c) = "info") => is_priority_email(email_result[1])

InfoAfterPlainReturned ==
    /\ e_pc = "done"
    /\ fixture.kind = "text"
    /\ fixture.parts = <<"sales@acme.com", "info@acme.com">>
    /\ emails = {"sales@acme.com", "info@acme.com"}
    /\ email_result = <<"info@acme.com">>

\* the candidates in the order in which the function first adds them
RECURSIVE first_seen(_, _)
first_seen(q, seen) ==
    IF Len(q) = 0 THEN <<>>
    ELSE IF q[1] \in seen THEN first_seen(Tail(q), seen)
    ELSE <<q[1]>> \o first_seen(Tail(q), seen \cup {q[1]})

insertion_order(html) ==
    LET dec == cf_decoded_seq(html)
    IN  first_seen([i \in 1..Len(dec) |-> Lower(dec[i])] \o business_emails(html), {})

priority_keywords == <<"info", "contact", "hello", "admin">>

\* the address the ranking rule names: the first candidate matching the
\* highest-priority keyword, else the first candidate
ranked_by_keyword(q) ==
    IF Len(q) <= 1 THEN q
    ELSE LET hits(k) == SelectSeq(q, LAMBDA e : Contains(LocalPart(e), priority_keywords[k]))
             ks == {k \in 1..Len(priority_keywords) : Len(hits(k)) > 0}
         IN  IF ks = {} THEN <<q[1]>>
             ELSE <<hits(CHOOSE k \in ks : \A j \in ks : k <= j)[1]>>

\* C8: the returned address is the one the keyword order info, contact, hello,
\* admin selects, else the first in first-seen order, and a second run on the
\* same page returns the same address.
EmailRankingDeterministic ==
    e_pc = "done" =>
        /\ email_result = ranked_by_keyword(insertion_order(html_content))
        /\ run = 2 => email_result = prev_result

\* C9 as stated: an obfuscated address is recovered character for character.
CfRoundTripExact ==
    (e_pc = "done" /\ fixture.kind = "cf") => email_result = <<fixture.addr>>

\* C9: an obfuscated address of more than five characters that contains '@'
\* and '.' is recovered in lower case, under every key and behind either
\* marker; any other obfuscated text is dropped.
CfRoundTripLowerCase ==
    (e_pc = "done" /\ fixture.kind = "cf") =>
        email_result =
            IF Len(fixture.addr) > 5 /\ Contains(fixture.addr, "@") /\ Contains(fixture.addr, ".")
            THEN <<Lower(fixture.addr)>>
            ELSE <<>>

CfMixedCaseRecovered ==
    /\ e_pc = "done"
    /\ fixture.kind = "cf"
    /\ fixture.addr = "Info@Acme.com"
    /\ fixture.key = 90
    /\ fixture.marker = "url"
    /\ email_result = <<"info@acme.com">>

\* the exclusion classes of a plain-text match: those the filter lists, and a
\* local part noreply or no-reply
in_exclusion_class(e) ==
    \/ LocalPart(e) \in {"noreply", "no-reply"}
    \/ exclude_patterns(e)
    \/ personal_patterns(e)
    \/ ContainsAny(e, {".png", ".jpg", ".jpeg", ".gif", ".svg", ".webp"})
    \/ (RunLen(e, 1, HexChars) >= 8 /\ Ch(e, RunLen(e, 1, HexChars) + 1) = "@")

\* C10: a plain-text match in an exclusion class is not the returned address,
\* unless the same address was also decoded from an obfuscation marker.
ExcludedPlainNeverReturned ==
    e_pc = "done" =>
        \A m \in Range(normalized_emails(html_content)) :
            (in_exclusion_class(m) /\ m \notin cf_emails(html_content))
                => email_result # <<m>>

-----------------------------------------------------------------------------
(* verify_website_ownership_with_claude *)

\* page_text = soup.get_text()[:1500]
SnippetLen == 1500

\* s * n
RECURSIVE Repeat(_, _)
Repeat(s, n) ==
    IF n = 0 THEN ""
    ELSE IF n = 1 THEN s
    ELSE Repeat(s, n \div 2) \o Repeat(s, n - (n \div 2))

\* title.text if title else ""; the title of a page is <<>> or <<text>>
title_text(page) == IF page.title = <<>> THEN "" ELSE page.title[1]

page_snippet(page) == Slice(page.text, 1, SnippetLen)

\* variant: only the title is searched for the name
name_on_page_title_only(name, page) == Contains(Lower(title_text(page)), Lower(name))

\* the test of line 516
name_on_page(name, page) ==
    \/ Contains(Lower(page_snippet(page)), Lower(name))
    \/ Contains(Lower(title_text(page)), Lower(name))

\* claude_result = "YES" in response_text.upper()
judge_says_yes(text) == Contains(Upper(text), "YES")

\* return True of line 496
verify_without_client == TRUE

\* return True of line 505
verify_on_bad_status == TRUE

\* variant: a failed verification rejects the candidate
verify_on_error_reject == FALSE

\* return True of line 552
verify_on_error == TRUE

CompanyNames == {"Acme Dental", "Zenith Co", ""}

Statuses == {200, 403, 404, 503}

\* pages as the parser gives them: the title element and get_text()
VerifyPages ==
    { [title |-> <<"ACME Dental | Home">>, text |-> "ACME Dental | Home Welcome to our clinic"],
      [title |-> <<>>, text |-> "Business directory: plumbers, dentists, Zenith co."],
      [title |-> <<"Listings">>, text |-> "Listings " \o Repeat(".", SnippetLen) \o " Acme Dental"],
      [title |-> <<"Zenith">>, text |-> "Zenith " \o Repeat(".", SnippetLen - 12) \o "Acme Dental"] }

JudgeAnswers == {"YES", "NO", "Yes, this is the company.", "no", "Probably not."}

VerifyInit ==
    /\ EmailIdle
    /\ AnalyzeIdle
    /\ FbIdle
    /\ DetectIdle
    /\ CsvIdle
    /\ FbVerifyIdle
    /\ ProcessIdle
    /\ v_pc = "client"
    /\ client \in BOOLEAN
    /\ company_name \in CompanyNames
    /\ v_response = <<>>
    /\ v_answer = <<>>
    /\ judge_calls = 0
    /\ v_raised = FALSE
    /\ v_result = <<>>

\* the except clause of lines 550-552
VerifyRaise ==
    /\ v_raised' = TRUE
    /\ v_result' = <<verify_on_error>>
    /\ v_pc' = "done"

\* lines 494-496
VerifyClient ==
    /\ v_pc = "client"
    /\ IF ~client
       THEN v_result' = <<verify_without_client>> /\ v_pc' = "done"
       ELSE v_result' = v_result /\ v_pc' = "fetch"
    /\ UNCHANGED <<client, company_name, v_response, v_answer, judge_calls, v_raised, v_others>>

\* lines 502-505: the fetch raises, or answers with a status and a page
VerifyFetch ==
    /\ v_pc = "fetch"
    /\ \/ VerifyRaise /\ UNCHANGED v_response
       \/ \E st \in Statuses, pg \in VerifyPages :
             /\ v_response' = <<[status_code |-> st, page |-> pg]>>
             /\ IF st # 200
                THEN v_result' = <<verify_on_bad_status>> /\ v_pc' = "done"
                ELSE v_result' = v_result /\ v_pc' = "page"
             /\ UNCHANGED v_raised
    /\ UNCHANGED <<client, company_name, v_answer, judge_calls, v_others>>

\* lines 508-518: parsing raises, or the name is looked for on the page
VerifyPage ==
    /\ v_pc = "page"
    /\ \/ VerifyRaise
       \/ /\ IF name_on_page(company_name, v_response[1].page)
             THEN v_result' = <<TRUE>> /\ v_pc' = "done"
             ELSE v_result' = v_result /\ v_pc' = "judge"
          /\ UNCHANGED v_raised
    /\ UNCHANGED <<client, company_name, v_response, v_answer, judge_calls, v_others>>

\* lines 539-548: the call raises, the message has no content (content[0]
\* raises), or the answer is read
VerifyJudge ==
    /\ v_pc = "judge"
    /\ judge_calls' = judge_calls + 1
    /\ \/ VerifyRaise /\ UNCHANGED v_answer
       \/ \E text \in JudgeAnswers :
             /\ v_answer' = <<text>>
             /\ v_result' = <<judge_says_yes(text)>>
             /\ v_pc' = "done"
             /\ UNCHANGED v_raised
    /\ UNCHANGED <<client, company_name, v_response, v_others>>

VerifyNext == VerifyClient \/ VerifyFetch \/ VerifyPage \/ VerifyJudge

VerifySpec == VerifyInit /\ [][VerifyNext]_vars

-----------------------------------------------------------------------------
(* Properties of verify_website_ownership_with_claude *)

\* C4: without a client, and whenever a step raised (fetch, parse, judge call,
\* reading the answer), the candidate is accepted; both cases give the same
\* value and never a rejection.
VerificationFailsOpen ==
    (v_pc = "done" /\ (~client \/ v_raised)) => v_result = <<TRUE>>

JudgeErrorAccepted ==
    /\ v_pc = "done"
    /\ client
    /\ v_raised
    /\ judge_calls = 1
    /\ v_result = <<TRUE>>

\* the company name occurs, whatever the case of its letters, in the title or
\* in the first SnippetLen characters of the text of the fetched page
NameInTitleOrSnippet ==
    /\ v_response # <<>>
    /\ \/ Contains(Lower(Slice(v_response[1].page.text, 1, SnippetLen)), Lower(company_name))
       \/ /\ v_response[1].page.title # <<>>
          /\ Contains(Lower(v_response[1].page.title[1]), Lower(company_name))

JudgedAndFollowed ==
    /\ judge_calls = 1
    /\ v_answer # <<>>
    /\ v_result = <<Contains(Upper(v_answer[1]), "YES")>>

\* C5 as stated: a name found in the title or snippet is accepted without the
\* judge; in every other case with a client and no error the judge is called
\* and its answer decides.
JudgeDecidesEveryOtherCase ==
    v_pc = "done" =>
        /\ NameInTitleOrSnippet => (v_result = <<TRUE>> /\ judge_calls = 0)
        /\ (client /\ ~v_raised /\ ~NameInTitleOrSnippet) => JudgedAndFollowed

\* C5: a name found in the title or snippet is accepted without the judge; a
\* fetch answered with a status other than 200 is accepted without the judge;
\* in every other case with a client, status 200 and no error the judge is
\* called once and its answer decides.
JudgeDecidesOnFetchedPage ==
    v_pc = "done" =>
        /\ NameInTitleOrSnippet => (v_result = <<TRUE>> /\ judge_calls = 0)
        /\ (client /\ ~v_raised /\ v_response # <<>> /\ v_response[1].status_code # 200)
              => (v_result = <<TRUE>> /\ judge_calls = 0)
        /\ (client /\ ~v_raised /\ v_response # <<>> /\ v_response[1].status_code = 200
                /\ ~NameInTitleOrSnippet)
              => JudgedAndFollowed

JudgeRejectedCandidate ==
    /\ v_pc = "done"
    /\ client
    /\ ~v_raised
    /\ company_name = "Acme Dental"
    /\ v_response[1].status_code = 200
    /\ v_response[1].page.title = <<"Listings">>
    /\ judge_calls = 1
    /\ v_answer = <<"Probably not.">>
    /\ v_result = <<FALSE>>

-----------------------------------------------------------------------------
(* check_contact_forms_enhanced                                             *)
(*                                                                         *)
(* A page is the record of what the parser returns for the queries of the  *)
(* code:                                                                   *)
(*   html       the markup (response.text, str(soup))                      *)
(*   strings    the .string of the button, a, div and span elements        *)
(*   containers the div and section elements: tag, style, classes (the     *)
(*              tokens of the class attribute) and form_elements, the      *)
(*              number of form, input and textarea elements inside         *)
(*   forms      the form elements: text (get_text()), action, and inputs,  *)
(*              the input, textarea and select elements inside, each with  *)
(*              tag, name, type and placeholder ("" when absent)           *)
(*   scripts    the text of the script elements ("" when .string is None)  *)
(*   iframes    the src of the iframe elements ("" when absent)            *)
(*   links      the a elements with an href: href and text                 *)
(*   images     the img elements, see extract_logo_url_enhanced            *)

modal_indicators ==
    {"send message", "contact us", "get in touch", "send inquiry",
     "message us", "contact form", "reach out", "send email"}

\* find_all(['button', 'a', 'div', 'span'], string=re.compile(indicator, re.IGNORECASE))
\* is not empty for some indicator of the list
has_trigger(page, indicators) ==
    \E i \in 1..Len(page.strings) : ContainsAny(Lower(page.strings[i]), indicators)

\* re.compile(r'display.*none', re.IGNORECASE) matches the style attribute:
\* "display", then "none" later on the same line ("." matches no line break)
style_hides(style) ==
    \E i \in 1..Len(style) :
        /\ Slice(Lower(style), i, i + 6) = "display"
        /\ \E j \in (i + 7)..Len(style) :
              /\ Slice(Lower(style), j, j + 3) = "none"
              /\ ~Contains(Slice(style, i + 7, j - 1), "\n")

\* a class_ regular expression is tried on every token of the class attribute
\* and then on the whole attribute
class_matches(classes, words) ==
    /\ Len(classes) > 0
    /\ \/ \E i \in 1..Len(classes) : ContainsAny(Lower(classes[i]), words)
       \/ ContainsAny(Lower(Join(classes, " ")), words)

is_hidden_form(c) == c.tag \in {"div", "section"} /\ style_hides(c.style)

is_modal_container(c) ==
    c.tag = "div" /\ class_matches(c.classes, {"modal", "popup", "overlay", "dialog"})

\* Priority 1, lines 177-203
modal_rule(page) ==
    /\ has_trigger(page, modal_indicators)
    /\ \/ \E i \in 1..Len(page.containers) :
             /\ is_hidden_form(page.containers[i]) \/ is_modal_container(page.containers[i])
             /\ page.containers[i].form_elements > 0
       \/ ContainsAny(Lower(page.html), {"contact-form", "message-form", "inquiry-form"})

form_has_name(form) ==
    \/ \E i \in 1..Len(form.inputs) : Contains(Lower(form.inputs[i].name), "name")
    \/ \E i \in 1..Len(form.inputs) : Contains(Lower(form.inputs[i].placeholder), "name")
    \/ Contains(Lower(form.text), "name")

form_has_email(form) ==
    \/ \E i \in 1..Len(form.inputs) : Contains(Lower(form.inputs[i].name), "email")
    \/ \E i \in 1..Len(form.inputs) : Lower(form.inputs[i].type) = "email"
    \/ \E i \in 1..Len(form.inputs) : Contains(Lower(form.inputs[i].placeholder), "email")

form_has_message(form) ==
    \/ \E i \in 1..Len(form.inputs) :
           ContainsAny(Lower(form.inputs[i].name), {"message", "comment"})
    \/ \E i \in 1..Len(form.inputs) : form.inputs[i].tag = "textarea"
    \/ \E i \in 1..Len(form.inputs) :
           ContainsAny(Lower(form.inputs[i].placeholder), {"message", "comment"})

\* variant: two inputs are enough
enough_inputs_two(n) == n >= 2

\* len(inputs) >= 3 of lines 227, 250 and 257
enough_inputs(n) == n >= 3

\* variant: no word marks an appointment form
appointment_words_none == {}

\* the words of line 261
appointment_words == {"appointment", "schedule", "book", "patient"}

\* the tests of lines 214-222: the form is passed over
form_skipped(form) ==
    \/ Len(form.inputs) < 2
    \/ ContainsAny(Lower(form.text), {"error!", "close", "login", "sign in", "password"})
    \/ Contains(Lower(form.text), "search") /\ Len(form.inputs) <= 2

\* the body of the loop over the forms, lines 210-262: which statement ends
\* the iteration
form_verdict(form) ==
    LET form_text == Lower(form.text)
        n == Len(form.inputs)
    IN  IF form_skipped(form) THEN "skip"
        ELSE IF /\ ContainsAny(form_text, {"contact", "message", "inquiry", "question", "feedback"})
                /\ enough_inputs(n)
        THEN "form_keyword"
        ELSE IF /\ form_has_name(form) /\ form_has_email(form) /\ form_has_message(form)
                /\ enough_inputs(n)
        THEN "form_fields"
        ELSE IF /\ form.action # ""
                /\ ContainsAny(Lower(form.action), {"contact", "message", "inquiry", "send"})
                /\ enough_inputs(n)
                /\ form_has_email(form) \/ form_has_message(form)
        THEN "form_action"
        ELSE IF ContainsAny(form_text, appointment_words)
        THEN "appointment"
        ELSE "none"

form_returns == {"form_keyword", "form_fields", "form_action"}

\* Priority 2, lines 205-266: the first form that returns decides; without
\* one, an appointment form seen during the scan does
form_scan(page) ==
    LET hits == {i \in 1..Len(page.forms) : form_verdict(page.forms[i]) \in form_returns}
    IN  IF hits # {} THEN form_verdict(page.forms[Min(hits)])
        ELSE IF \E i \in 1..Len(page.forms) : form_verdict(page.forms[i]) = "appointment"
        THEN "appointment_form"
        ELSE "none"

\* variant: no phrase is looked for
appointment_indicators_none == {}

\* lines 269-272
appointment_indicators ==
    {"request appointment", "book appointment", "schedule appointment",
     "request an appointment", "book an appointment", "schedule an appointment"}

\* ' '.join(x) for the string x the class_ function is called with
SpaceOut(x) == Join([i \in 1..Len(x) |-> Ch(x, i)], " ")

container_keywords ==
    {"contact-us", "form__container", "leadform", "contact form", "pleform", "gform", "wpcf7"}

\* lines 294-296: the function is called with each token of the class
\* attribute of a div and then with the whole attribute
container_rule(page) ==
    \E i \in 1..Len(page.containers) :
        LET c == page.containers[i]
        IN  /\ c.tag = "div"
            /\ Len(c.classes) > 0
            /\ \E x \in Range(c.classes) \cup {Join(c.classes, " ")} :
                   x # "" /\ ContainsAny(Lower(SpaceOut(x)), container_keywords)

\* the test of lines 313-318 on one link
link_qualifies(link) ==
    LET href == Lower(link.href)
        link_text == Lower(link.text)
    IN  /\ ~(\E w \in {"appointment", "schedule", "book", "patient"} :
                Contains(href, w) \/ Contains(link_text, w))
        /\ ContainsAny(href, {"contact", "get-in-touch", "reach-us"})
        /\ Contains(href \o link_text, "form")

qualifying_links(page) == {i \in 1..Len(page.links) : link_qualifies(page.links[i])}

\* the return statement that check_contact_forms_enhanced reaches
contact_rule(page) ==
    IF modal_rule(page) THEN "modal"
    ELSE IF form_scan(page) # "none" THEN form_scan(page)
    ELSE IF has_trigger(page, appointment_indicators) THEN "appointment_button"
    ELSE IF \E i \in 1..Len(page.scripts) :
               ContainsAny(Lower(page.scripts[i]), {"gform", "gravity", "gravityforms"})
    THEN "gravity_forms"
    ELSE IF ContainsAny(Lower(page.html), {"wpcf7", "contact-form-7", "contact-form"})
    THEN "form_plugin"
    ELSE IF container_rule(page) THEN "container"
    ELSE IF \E i \in 1..Len(page.iframes) :
               ContainsAny(Lower(page.iframes[i]),
                           {"typeform", "jotform", "wufoo", "google.com/forms", "formstack"})
    THEN "iframe"
    ELSE IF qualifying_links(page) # {} THEN "link"
    ELSE "none"

\* lines 310 and 319: the test href.startswith('http') on the lower-cased
\* attribute, by which the code takes an href for an absolute one
is_absolute_href(href) == StartsWith(Lower(href), "http")

\* line 319: href is the lower-cased attribute
link_locator(link, current_url) ==
    IF is_absolute_href(link.href) THEN Lower(link.href) ELSE current_url

check_contact_forms_enhanced(page, current_url) ==
    LET rule == contact_rule(page)
    IN  IF rule = "none" THEN ""
        ELSE IF rule = "link"
        THEN link_locator(page.links[Min(qualifying_links(page))], current_url)
        ELSE current_url

-----------------------------------------------------------------------------
(* normalize_facebook_url and extract_facebook_from_website *)

\* length of the longest run of characters outside the class C from position i
RunLenNot(s, i, C) ==
    LET stops == {j \in i..Len(s) : Ch(s, j) \in C}
    IN  IF i > Len(s) THEN 0
        ELSE IF stops = {} THEN Len(s) - i + 1
        ELSE Min(stops) - i

\* the positions at which sub occurs in s
Occurrences(s, sub) ==
    {i \in 1..(Len(s) - Len(sub) + 1) : SubSeq(s, i, i + Len(sub) - 1) = sub}

\* s.replace(old, new)
RECURSIVE ReplaceAll(_, _, _)
ReplaceAll(s, old, new) ==
    IF Occurrences(s, old) = {} THEN s
    ELSE LET i == Min(Occurrences(s, old))
         IN  Slice(s, 1, i - 1) \o new \o ReplaceAll(Slice(s, i + Len(old), Len(s)), old, new)

\* s.split(sep)[0]
BeforeFirst(s, sep) ==
    IF Occurrences(s, sep) = {} THEN s ELSE Slice(s, 1, Min(Occurrences(s, sep)) - 1)

\* s.split(sep)[-1]
AfterLast(s, sep) ==
    IF Occurrences(s, sep) = {} THEN s
    ELSE Slice(s, Max(Occurrences(s, sep)) + Len(sep), Len(s))

\* s.rstrip(c)
RStrip(s, c) == Slice(s, 1, Max({0} \cup {i \in 1..Len(s) : Ch(s, i) # c}))

\* lines 46-64
normalize_facebook_url(facebook_url) ==
    IF facebook_url = "" \/ ~Contains(Lower(facebook_url), "facebook.com") THEN facebook_url
    ELSE LET u == ReplaceAll(facebook_url, "m.facebook.com", "facebook.com")
             at == {i \in Occurrences(u, "facebook.com/") : RunLenNot(u, i + 13, {"/", "?"}) > 0}
         IN  IF at = {} THEN u
             ELSE "https://www.facebook.com/"
                     \o SubSeq(u, Min(at) + 13, Min(at) + 12 + RunLenNot(u, Min(at) + 13, {"/", "?"}))

fb_url_prefixes ==
    {scheme \o www \o m \o "facebook.com/" :
        scheme \in {"http://", "https://"}, www \in {"www.", ""}, m \in {"m.", ""}}

fb_url_stops == {" ", "\t", "\n", "\r", "\f", "\"", "'", "<", ">"}

\* the last position of the match of
\*   https?://(?:www\.)?(?:m\.)?facebook\.com/[^\s"'<>]+   (re.IGNORECASE)
\* at position p of s, 0 when there is none; ls is s in lower case
fb_match_end(s, ls, p) ==
    LET fits == {x \in fb_url_prefixes :
                    /\ Slice(ls, p, p + Len(x) - 1) = x
                    /\ RunLenNot(s, p + Len(x), fb_url_stops) > 0}
    IN  IF fits = {} THEN 0
        ELSE LET x == CHOOSE x \in fits : TRUE
             IN  p + Len(x) - 1 + RunLenNot(s, p + Len(x), fb_url_stops)

RECURSIVE fb_findall(_, _, _)
fb_findall(s, ls, pos) ==
    LET starts == {p \in pos..Len(s) : fb_match_end(s, ls, p) # 0}
    IN  IF starts = {} THEN <<>>
        ELSE LET p == Min(starts)
                 e == fb_match_end(s, ls, p)
             IN  <<SubSeq(s, p, e)>> \o fb_findall(s, ls, e + 1)

\* lines 421-433
facebook_links(page) ==
    LET hrefs == [i \in 1..Len(page.links) |-> page.links[i].href]
    IN  SelectSeq(hrefs, LAMBDA h : Contains(Lower(h), "facebook.com") /\ ~Contains(Lower(h), "/sharer"))
            \o fb_findall(page.html, Lower(page.html), 1)

\* lines 442-443
fb_clean(fb_url) == RStrip(BeforeFirst(fb_url, "?"), "/")

\* lines 438-451: the candidate is returned
fb_survives(fb_url) ==
    /\ ~ContainsAny(Lower(fb_url), {"/sharer", "/tr?", "/plugins", "/dialog", "/pages"})
    /\ Contains(fb_clean(fb_url), "facebook.com/")
    /\ LET page_part == AfterLast(fb_clean(fb_url), "facebook.com/")
       IN  /\ Len(page_part) > 3
           /\ ~StartsWith(Lower(page_part), "pages")
           /\ Lower(page_part) \notin {"home", "login", "signup", "help", "about"}

extract_facebook_from_website(page) ==
    LET survivors == SelectSeq(facebook_links(page), fb_survives)
    IN  IF Len(survivors) = 0 THEN ""
        ELSE normalize_facebook_url(fb_clean(survivors[1]))

-----------------------------------------------------------------------------
(* extract_logo_url_enhanced                                                *)
(*                                                                         *)
(* An image is the record of an img element: alt and src ("" when absent), *)
(* classes, and inside, the set of the container selectors                 *)
(* ".logo", "#logo", "header", ".header", ".brand", ".navbar-brand" of     *)
(* which the element is a descendant.                                      *)

logo_selectors ==
    <<"alt", "src", "class", ".logo", "#logo", "header", ".header", ".brand", ".navbar-brand">>

selector_matches(sel, img) ==
    IF sel = "alt" THEN Contains(Lower(img.alt), "logo")
    ELSE IF sel = "src" THEN Contains(Lower(img.src), "logo")
    ELSE IF sel = "class" THEN Contains(Lower(Join(img.classes, " ")), "logo")
    ELSE sel \in img.inside

\* soup.select_one(selector): the first image in document order, 0 when none
select_one(page, sel) ==
    LET hits == {i \in 1..Len(page.images) : selector_matches(sel, page.images[i])}
    IN  IF hits = {} THEN 0 ELSE Min(hits)

(* urllib.parse, as imported at lines 481 and 484 (CPython 3.11).  The    *)
(* text is ASCII; the check of non-ASCII host names does not apply.        *)

\* s.split(c) for a separator of one character
RECURSIVE SplitOn(_, _)
SplitOn(s, c) ==
    IF IndexOf(s, c) = 0 THEN <<s>>
    ELSE <<Slice(s, 1, IndexOf(s, c) - 1)>>
            \o SplitOn(Slice(s, IndexOf(s, c) + 1, Len(s)), c)

\* s.lstrip(chars)
LStripChars(s, chars) ==
    Slice(s, Min({i \in 1..Len(s) : Ch(s, i) \notin chars} \cup {Len(s) + 1}), Len(s))

uses_relative ==
    {"", "ftp", "http", "gopher", "nntp", "imap", "wais", "file", "https", "shttp", "mms",
     "prospero", "rtsp", "rtsps", "rtspu", "sftp", "svn", "svn+ssh", "ws", "wss"}

uses_netloc ==
    {"", "ftp", "http", "gopher", "nntp", "telnet", "imap", "wais", "file", "mms", "https",
     "shttp", "snews", "prospero", "rtsp", "rtsps", "rtspu", "rsync", "svn", "svn+ssh",
     "sftp", "nfs", "git", "git+ssh", "ws", "wss"}

uses_params ==
    {"", "ftp", "hdl", "prospero", "http", "imap", "https", "shttp", "rtsp", "rtsps",
     "rtspu", "sip", "sips", "mms", "sftp", "tel"}

scheme_chars == UpperChars \cup LowerChars \cup DigitChars \cup {"+", "-", "."}

HexAnyCase == CharsOf("0123456789ABCDEFabcdef")

\* IPv4Address._parse_octet does not raise
valid_octet(octet) ==
    /\ octet # ""
    /\ CharsOf(octet) \subseteq DigitChars
    /\ Len(octet) <= 3
    /\ octet = "0" \/ Ch(octet, 1) # "0"
    /\ LET d(i) == HexDigitVal(Ch(octet, i))
           value == IF Len(octet) = 1 THEN d(1)
                    ELSE IF Len(octet) = 2 THEN 10 * d(1) + d(2)
                    ELSE 100 * d(1) + 10 * d(2) + d(3)
       IN  value <= 255

\* IPv4Address(text) does not raise
valid_ipv4(text) ==
    /\ text # ""
    /\ Len(SplitOn(text, ".")) = 4
    /\ \A i \in 1..4 : valid_octet(SplitOn(text, ".")[i])

\* IPv6Address._parse_hextet does not raise
valid_hextet(hextet) ==
    hextet # "" /\ Len(hextet) <= 4 /\ CharsOf(hextet) \subseteq HexAnyCase

\* the hextets before and after the '::' at position k of parts are valid
valid_skipped(parts, k, parts_hi, parts_lo) ==
    /\ parts[1] = "" => parts_hi = 0
    /\ parts[Len(parts)] = "" => parts_lo = 0
    /\ 8 - (parts_hi + parts_lo) >= 1
    /\ \A i \in 1..parts_hi : valid_hextet(parts[i])
    /\ \A i \in (Len(parts) - parts_lo + 1)..Len(parts) : valid_hextet(parts[i])

\* the parts of an address, a dotted last part already replaced by two hextets
valid_ipv6_parts(parts, skips) ==
    /\ Len(parts) <= 9
    /\ Cardinality(skips) <= 1
    /\ IF skips # {}
       THEN valid_skipped(parts, Min(skips),
                          IF parts[1] = "" THEN Min(skips) - 2 ELSE Min(skips) - 1,
                          IF parts[Len(parts)] = "" THEN Len(parts) - Min(skips) - 1
                          ELSE Len(parts) - Min(skips))
       ELSE /\ Len(parts) = 8
            /\ \A i \in 1..8 : valid_hextet(parts[i])

\* the interior parts that are empty: the places of a '::'
skipped_parts(parts) == {i \in 2..(Len(parts) - 1) : parts[i] = ""}

valid_ipv6_split(split) ==
    /\ Len(split) >= 3
    /\ IF Contains(split[Len(split)], ".")
       THEN /\ valid_ipv4(split[Len(split)])
            /\ valid_ipv6_parts(
                   SubSeq(split, 1, Len(split) - 1) \o <<"0", "0">>,
                   skipped_parts(SubSeq(split, 1, Len(split) - 1) \o <<"0", "0">>))
       ELSE valid_ipv6_parts(split, skipped_parts(split))

\* IPv6Address._ip_int_from_string does not raise
valid_ipv6_address(text) == text # "" /\ valid_ipv6_split(SplitOn(text, ":"))

\* IPv6Address(text) does not raise: an address, then '%' and a scope id or nothing
valid_ipv6(text) ==
    /\ Contains(text, "%") =>
          /\ Slice(text, IndexOf(text, "%") + 1, Len(text)) # ""
          /\ ~Contains(Slice(text, IndexOf(text, "%") + 1, Len(text)), "%")
    /\ valid_ipv6_address(BeforeFirst(text, "%"))

\* _check_bracketed_host does not raise
valid_bracketed_host(hostname) ==
    IF StartsWith(hostname, "v")
    THEN /\ RunLen(hostname, 2, HexAnyCase) >= 1
         /\ Ch(hostname, 2 + RunLen(hostname, 2, HexAnyCase)) = "."
         /\ Len(hostname) >= RunLen(hostname, 2, HexAnyCase) + 3
    ELSE valid_ipv6(hostname)

\* the brackets of a netloc are those of one IPv6 or IPvFuture literal
valid_netloc(netloc) ==
    /\ Contains(netloc, "[") <=> Contains(netloc, "]")
    /\ Contains(netloc, "[") =>
          valid_bracketed_host(
              BeforeFirst(Slice(netloc, IndexOf(netloc, "[") + 1, Len(netloc)), "]"))

\* urlsplit, last step: the query is cut off at the first '?'
split_query(ok, scheme, netloc, before, fragment) ==
    [ok |-> ok,
     scheme |-> scheme,
     netloc |-> netloc,
     path |-> BeforeFirst(before, "?"),
     query |-> IF Contains(before, "?")
               THEN Slice(before, IndexOf(before, "?") + 1, Len(before)) ELSE "",
     fragment |-> fragment]

\* urlsplit: the netloc is checked and the fragment is cut off at the first '#'
split_fragment(scheme, netloc, tail) ==
    split_query(valid_netloc(netloc), scheme, netloc, BeforeFirst(tail, "#"),
                IF Contains(tail, "#")
                THEN Slice(tail, IndexOf(tail, "#") + 1, Len(tail)) ELSE "")

\* _splitnetloc(url, 2): the position of the first of '/', '?', '#' after '//'
netloc_end(rest) ==
    Min({j \in 3..Len(rest) : Ch(rest, j) \in {"/", "?", "#"}} \cup {Len(rest) + 1})

\* urlsplit: the netloc follows '//' and ends before the first '/', '?' or '#'
split_netloc(scheme, rest) ==
    IF StartsWith(rest, "//")
    THEN split_fragment(scheme, Slice(rest, 3, netloc_end(rest) - 1),
                        Slice(rest, netloc_end(rest), Len(rest)))
    ELSE split_fragment(scheme, "", rest)

\* the position of the ':' that ends the scheme of a URL, 0 when it has none
scheme_end(clean) ==
    IF /\ IndexOf(clean, ":") >= 2
       /\ Ch(clean, 1) \in UpperChars \cup LowerChars
       /\ CharsOf(Slice(clean, 1, IndexOf(clean, ":") - 1)) \subseteq scheme_chars
    THEN IndexOf(clean, ":")
    ELSE 0

\* urlsplit: the scheme of the URL, lower-cased, or the default scheme
split_scheme(clean, scheme) ==
    IF scheme_end(clean) = 0 THEN split_netloc(scheme, clean)
    ELSE split_netloc(Lower(Slice(clean, 1, scheme_end(clean) - 1)),
                      Slice(clean, scheme_end(clean) + 1, Len(clean)))

\* urlsplit(url, scheme); ok is FALSE when it raises ValueError.  Leading
\* blanks are stripped and tabs and line breaks removed first.
urlsplit(url, scheme) ==
    split_scheme(
        ReplaceAll(ReplaceAll(ReplaceAll(LStripChars(url, SpaceChars), "\t", ""), "\r", ""),
                   "\n", ""),
        scheme)

\* the position of the ';' at which _splitparams cuts the path, 0 when none
params_at(path) ==
    Min({i \in (IF Contains(path, "/") THEN Max(Occurrences(path, "/")) ELSE 1)..Len(path) :
            Ch(path, i) = ";"} \cup {Len(path) + 1}) % (Len(path) + 1)

split_params(split, cut) ==
    [ok |-> split.ok,
     scheme |-> split.scheme,
     netloc |-> split.netloc,
     path |-> IF cut = 0 THEN split.path ELSE Slice(split.path, 1, cut - 1),
     params |-> IF cut = 0 THEN "" ELSE Slice(split.path, cut + 1, Len(split.path)),
     query |-> split.query,
     fragment |-> split.fragment]

with_params(split) ==
    split_params(split, IF split.scheme \in uses_params THEN params_at(split.path) ELSE 0)

\* urlparse(url, scheme)
urlparse(url, scheme) == with_params(urlsplit(url, scheme))

\* urlunsplit, after the netloc was put in front of the path
unsplit_rest(scheme, hosted_path, query, fragment) ==
    (IF scheme # "" THEN scheme \o ":" ELSE "") \o hosted_path
        \o (IF query # "" THEN "?" \o query ELSE "")
        \o (IF fragment # "" THEN "#" \o fragment ELSE "")

unsplit(scheme, netloc, path, query, fragment) ==
    unsplit_rest(
        scheme,
        IF netloc # "" \/ (scheme # "" /\ scheme \in uses_netloc /\ Slice(path, 1, 2) # "//")
        THEN "//" \o netloc \o (IF path # "" /\ Ch(path, 1) # "/" THEN "/" ELSE "") \o path
        ELSE path,
        query, fragment)

\* urlunparse((scheme, netloc, path, params, query, fragment))
urlunparse(scheme, netloc, path, params, query, fragment) ==
    unsplit(scheme, netloc, IF params # "" THEN path \o ";" \o params ELSE path,
            query, fragment)

\* the loop of urljoin over the segments: '..' pops, '.' is skipped
RECURSIVE resolve_segments(_, _)
resolve_segments(segments, resolved_path) ==
    IF segments = <<>> THEN resolved_path
    ELSE resolve_segments(
             Tail(segments),
             IF Head(segments) = ".."
             THEN SubSeq(resolved_path, 1, Len(resolved_path) - 1)
             ELSE IF Head(segments) = "." THEN resolved_path
             ELSE Append(resolved_path, Head(segments)))

\* filter(None, segments)
RECURSIVE without_empty(_)
without_empty(segments) ==
    IF segments = <<>> THEN <<>>
    ELSE (IF Head(segments) = "" THEN <<>> ELSE <<Head(segments)>>)
            \o without_empty(Tail(segments))

\* segments[1:-1] = filter(None, segments[1:-1])
inner_filtered(all) ==
    IF Len(all) < 3 THEN all
    ELSE <<all[1]>> \o without_empty(SubSeq(all, 2, Len(all) - 1)) \o <<all[Len(all)]>>

\* base_parts: the segments of the base path without the last one, unless that is empty
base_parts_of(split_base) ==
    IF split_base[Len(split_base)] # "" THEN SubSeq(split_base, 1, Len(split_base) - 1)
    ELSE split_base

\* '/'.join(resolved_path) or '/'
path_of(resolved_path) ==
    IF Join(resolved_path, "/") = "" THEN "/" ELSE Join(resolved_path, "/")

resolved_of(segments) ==
    path_of(resolve_segments(segments, <<>>)
               \o (IF segments[Len(segments)] \in {".", ".."} THEN <<"">> ELSE <<>>))

\* the path of urljoin for a relative path that is not empty
joined_path(bpath, path) ==
    IF Ch(path, 1) = "/" THEN resolved_of(SplitOn(path, "/"))
    ELSE resolved_of(inner_filtered(base_parts_of(SplitOn(bpath, "/")) \o SplitOn(path, "/")))

\* urljoin, the base and the url parsed
join_parsed(url, b, u) ==
    IF u.scheme # b.scheme \/ u.scheme \notin uses_relative THEN url
    ELSE IF u.scheme \in uses_netloc /\ u.netloc # ""
    THEN urlunparse(u.scheme, u.netloc, u.path, u.params, u.query, u.fragment)
    ELSE urlunparse(u.scheme,
                    IF u.scheme \in uses_netloc THEN b.netloc ELSE u.netloc,
                    IF u.path = "" /\ u.params = "" THEN b.path
                    ELSE joined_path(b.path, u.path),
                    IF u.path = "" /\ u.params = "" THEN b.params ELSE u.params,
                    IF u.path = "" /\ u.params = "" /\ u.query = "" THEN b.query
                    ELSE u.query,
                    u.fragment)

\* urljoin: the url is parsed with the scheme of the base as its default
join_base(url, b) ==
    [raises |-> ~b.ok \/ ~urlparse(url, b.scheme).ok,
     value |-> join_parsed(url, b, urlparse(url, b.scheme))]

\* urljoin(base, url): raises is TRUE when it raises ValueError, value is
\* what it returns otherwise
urljoin_outcome(base, url) ==
    IF base = "" THEN [raises |-> FALSE, value |-> url]
    ELSE IF url = "" THEN [raises |-> FALSE, value |-> base]
    ELSE join_base(url, urlparse(base, ""))

urljoin_raises(base, url) == urljoin_outcome(base, url).raises

urljoin(base, url) == urljoin_outcome(base, url).value

\* lines 476-487
resolve_logo_src(src, base_url) ==
    IF StartsWith(src, "//") THEN "https:" \o src
    ELSE IF StartsWith(src, "/") THEN urljoin(base_url, src)
    ELSE IF ~StartsWith(src, "http") THEN urljoin(base_url, src)
    ELSE src

\* lines 480-485: the call of urljoin raises
resolve_logo_src_raises(src, base_url) ==
    /\ ~StartsWith(src, "//")
    /\ StartsWith(src, "/") \/ ~StartsWith(src, "http")
    /\ urljoin_raises(base_url, src)

\* lines 473-489: the first selector whose first image has a src decides
extract_logo_url_enhanced(page, base_url) ==
    LET good == {k \in 1..Len(logo_selectors) :
                    /\ select_one(page, logo_selectors[k]) # 0
                    /\ page.images[select_one(page, logo_selectors[k])].src # ""}
    IN  IF good = {} THEN ""
        ELSE resolve_logo_src(page.images[select_one(page, logo_selectors[Min(good)])].src,
                              base_url)

\* the function has no try: the ValueError of urljoin leaves it
extract_logo_url_enhanced_raises(page, base_url) ==
    LET good == {k \in 1..Len(logo_selectors) :
                    /\ select_one(page, logo_selectors[k]) # 0
                    /\ page.images[select_one(page, logo_selectors[k])].src # ""}
    IN  /\ good # {}
        /\ resolve_logo_src_raises(
               page.images[select_one(page, logo_selectors[Min(good)])].src, base_url)

-----------------------------------------------------------------------------
(* Pages *)

EmptyPage ==
    [html |-> "", strings |-> <<>>, containers |-> <<>>, forms |-> <<>>,
     scripts |-> <<>>, iframes |-> <<>>, links |-> <<>>, images |-> <<>>]

Input(tag, name, type, placeholder) ==
    [tag |-> tag, name |-> name, type |-> type, placeholder |-> placeholder]

PageBlank == [EmptyPage EXCEPT !.html = "<p>Welcome to Acme</p>"]

PageContactForm ==
    [EmptyPage EXCEPT
        !.html = "<form action=\"/send\"><label>Contact us</label><input name=\"name\">"
                    \o "<input type=\"email\" name=\"email\"><textarea name=\"message\"></textarea>"
                    \o "<input type=\"submit\"></form>",
        !.forms = << [text |-> "Contact us", action |-> "/send",
                      inputs |-> << Input("input", "name", "", ""),
                                    Input("input", "email", "email", ""),
                                    Input("textarea", "message", "", ""),
                                    Input("input", "", "submit", "") >>] >>]

PageLinkAbsolute ==
    [EmptyPage EXCEPT
        !.html = "<a href=\"https://Forms.Acme.com/Contact?Form=1\">Write to us</a>",
        !.strings = <<"Write to us">>,
        !.links = << [href |-> "https://Forms.Acme.com/Contact?Form=1", text |-> "Write to us"] >>]

PageLinkRelative ==
    [EmptyPage EXCEPT
        !.html = "<a href=\"/contact/form\">Write to us</a>",
        !.strings = <<"Write to us">>,
        !.links = << [href |-> "/contact/form", text |-> "Write to us"] >>]

PageAppointment ==
    [EmptyPage EXCEPT
        !.html = "<button>Request Appointment</button>",
        !.strings = <<"Request Appointment">>]

PageModal ==
    [EmptyPage EXCEPT
        !.html = "<a href=\"#\">Contact Us</a><div class=\"modal fade\"><form><input name=\"q\"></form></div>",
        !.strings = <<"Contact Us">>,
        !.containers = << [tag |-> "div", style |-> "", classes |-> <<"modal", "fade">>,
                           form_elements |-> 2] >>,
        !.forms = << [text |-> "", action |-> "", inputs |-> << Input("input", "q", "", "") >>] >>,
        !.links = << [href |-> "#", text |-> "Contact Us"] >>]

PageHome ==
    [EmptyPage EXCEPT
        !.html = "<header><img src=\"/img/logo.png\" alt=\"Acme\"></header>"
                    \o "<a href=\"https://m.facebook.com/AcmeDental/?ref=site\">Facebook</a>"
                    \o "<p>sales@acme.com info@acme.com</p>",
        !.strings = <<"Facebook">>,
        !.links = << [href |-> "https://m.facebook.com/AcmeDental/?ref=site", text |-> "Facebook"] >>,
        !.images = << [alt |-> "Acme", src |-> "/img/logo.png", classes |-> <<>>,
                       inside |-> {"header"}] >>]

\* a homepage whose form has a name, an e-mail and a message field, 4 inputs
PageHomeForm ==
    [EmptyPage EXCEPT
        !.html = "<h1>Acme Dental</h1><form action=\"/submit\"><input name=\"name\">"
                    \o "<input type=\"email\" name=\"email\"><textarea name=\"message\"></textarea>"
                    \o "<input type=\"submit\" value=\"Send\"></form>",
        !.forms = << [text |-> "", action |-> "/submit",
                      inputs |-> << Input("input", "name", "", ""),
                                    Input("input", "email", "email", ""),
                                    Input("textarea", "message", "", ""),
                                    Input("input", "", "submit", "") >>] >>]

\* the same homepage, the form cut down to 2 inputs
PageHomeShortForm ==
    [EmptyPage EXCEPT
        !.html = "<h1>Acme Dental</h1><form action=\"/submit\"><input name=\"name\">"
                    \o "<input type=\"email\" name=\"email\"></form>",
        !.forms = << [text |-> "", action |-> "/submit",
                      inputs |-> << Input("input", "name", "", ""),
                                    Input("input", "email", "email", "") >>] >>]

\* the homepage with the 2-input form and an appointment-request button
PageHomeShortFormButton ==
    [PageHomeShortForm EXCEPT
        !.html = PageHomeShortForm.html \o "<button>Request Appointment</button>",
        !.strings = <<"Request Appointment">>]

\* the homepage with the 4-input form, an address and a logo whose src is no
\* URL that urljoin can read
PageHomeBadLogo ==
    [PageHomeForm EXCEPT
        !.html = PageHomeForm.html \o "<img alt=\"logo\" src=\"ftp://[x/logo.png\">"
                    \o "<p>info@acme.com</p>",
        !.images = << [alt |-> "logo", src |-> "ftp://[x/logo.png", classes |-> <<>>,
                       inside |-> {}] >>]

HomePages ==
    {PageBlank, PageHome, PageContactForm, PageLinkAbsolute,
     PageHomeForm, PageHomeShortForm, PageHomeShortFormButton, PageHomeBadLogo}

ContactPages ==
    {PageBlank, PageContactForm, PageLinkAbsolute, PageLinkRelative, PageAppointment, PageModal}

WebsiteUrls == {"", "https://acme.com", "https://acme.com/"}

-----------------------------------------------------------------------------
(* analyze_website_content_serpapi *)

priority_contact_pages ==
    <<"/contact-us", "/contact", "/contact.html", "/contact.htm", "/contact.php",
      "/contact_us", "/get-in-touch", "/reach-us", "/hours-location", "/location-hours">>

\* lines 111-116 and 167-172
empty_analysis == [emails |-> <<>>, contact_form |-> "", facebook_page |-> "", logo_url |-> ""]

\* line 138
contact_url(url, i) == RStrip(url, "/") \o priority_contact_pages[i]

\* variant: the status of the homepage is not looked at
is_http_error_ignored(status) == FALSE

\* response.raise_for_status() raises
is_http_error(status) == status >= 400 /\ status < 600

\* variant: the scan goes on after a detection
stop_scan_never(form) == FALSE

\* lines 143-144: if contact_form: break
stop_scan(form) == form # ""

\* variant: the request of the loop is not inside a try of its own
contact_fetch_error_escapes == FALSE

\* lines 137 and 145-146: the try around one request of the loop
contact_fetch_error_caught == TRUE

AnalyzeInit ==
    /\ EmailIdle
    /\ VerifyIdle
    /\ FbIdle
    /\ DetectIdle
    /\ CsvIdle
    /\ FbVerifyIdle
    /\ ProcessIdle
    /\ a_pc = "start"
    /\ website_url \in WebsiteUrls
    /\ soup = <<>>
    /\ home_emails = <<>>
    /\ page_index = 0
    /\ contact_form = ""
    /\ fetched = <<>>
    /\ last_fetch = "none"
    /\ failures = 0
    /\ positive_at = 0
    /\ fired = <<>>
    /\ homepage_checked = FALSE
    /\ a_raised = FALSE
    /\ only_404 = TRUE
    /\ home_status = 0
    /\ analysis = <<>>

\* the except clause of lines 165-172
AnalyzeRaise ==
    /\ a_raised' = TRUE
    /\ analysis' = <<empty_analysis>>
    /\ a_pc' = "done"

\* lines 110-116
AnalyzeStart ==
    /\ a_pc = "start"
    /\ IF website_url = ""
       THEN analysis' = <<empty_analysis>> /\ a_pc' = "done"
       ELSE analysis' = analysis /\ a_pc' = "home"
    /\ UNCHANGED <<website_url, soup, home_emails, page_index, contact_form, fetched,
                   last_fetch, failures, positive_at, fired, homepage_checked, a_raised,
                   only_404, home_status, a_others>>

\* lines 123-134: the request raises, the status is an error, or the page is
\* parsed and its addresses extracted
AnalyzeFetchHome ==
    /\ a_pc = "home"
    /\ \/ AnalyzeRaise /\ home_status' = -1 /\ UNCHANGED <<soup, home_emails, page_index>>
       \/ \E status \in Statuses :
             /\ is_http_error(status)
             /\ AnalyzeRaise
             /\ home_status' = status
             /\ UNCHANGED <<soup, home_emails, page_index>>
       \/ \E status \in Statuses, page \in HomePages :
             /\ ~is_http_error(status)
             /\ home_status' = status
             /\ soup' = <<page>>
             /\ \E email_list \in Orderings(candidate_emails(page.html)) :
                   home_emails' = rank_emails(email_list)
             /\ page_index' = 1
             /\ a_pc' = "tier0"
             /\ UNCHANGED <<a_raised, analysis>>
    /\ UNCHANGED <<website_url, contact_form, fetched, last_fetch, failures, positive_at,
                   fired, homepage_checked, only_404, a_others>>

\* a request of the loop failed: lines 145-146, or the outer except clause
ContactFetchFailed(how) ==
    /\ last_fetch' = how
    /\ failures' = failures + 1
    /\ IF contact_fetch_error_caught \/ how = "status"
       THEN /\ page_index' = page_index + 1
            /\ a_pc' = IF page_index = Len(priority_contact_pages) THEN "homepage" ELSE "tier0"
            /\ UNCHANGED <<a_raised, analysis>>
       ELSE /\ AnalyzeRaise
            /\ UNCHANGED page_index
    /\ UNCHANGED <<contact_form, positive_at, fired>>

\* lines 136-146: one iteration of the loop over priority_contact_pages
AnalyzeFetchContact ==
    /\ a_pc = "tier0"
    /\ page_index <= Len(priority_contact_pages)
    /\ fetched' = Append(fetched, contact_url(website_url, page_index))
    /\ \/ ContactFetchFailed("error") /\ only_404' = FALSE
       \/ \E status \in Statuses :
             /\ status # 200
             /\ ContactFetchFailed("status")
             /\ only_404' = (only_404 /\ status = 404)
       \/ \E page \in ContactPages :
             LET url == contact_url(website_url, page_index)
                 found == check_contact_forms_enhanced(page, url)
             IN  /\ contact_form' = found
                 /\ last_fetch' = IF found # "" THEN "match" ELSE "nomatch"
                 /\ positive_at' = IF found # "" /\ positive_at = 0 THEN page_index
                                   ELSE positive_at
                 /\ fired' = IF found # "" THEN <<[page |-> page, url |-> url]>> ELSE fired
                 /\ page_index' = page_index + 1
                 /\ a_pc' = IF stop_scan(found) \/ page_index = Len(priority_contact_pages)
                            THEN "homepage" ELSE "tier0"
                 /\ only_404' = FALSE
                 /\ UNCHANGED <<failures, a_raised, analysis>>
    /\ UNCHANGED <<website_url, soup, home_emails, homepage_checked, home_status, a_others>>

\* lines 148-163: the homepage is examined when contact_form is still empty,
\* then the Facebook page and the logo are extracted and the record returned;
\* when the logo extraction raises, the except clause of lines 165-172 returns
\* the empty record
AnalyzeFinish ==
    /\ a_pc = "homepage"
    /\ LET found == IF contact_form = ""
                    THEN check_contact_forms_enhanced(soup[1], website_url)
                    ELSE contact_form
       IN  /\ contact_form' = found
           /\ homepage_checked' = (contact_form = "")
           /\ fired' = IF contact_form = "" /\ found # ""
                       THEN <<[page |-> soup[1], url |-> website_url]>>
                       ELSE fired
           /\ IF extract_logo_url_enhanced_raises(soup[1], website_url)
              THEN AnalyzeRaise
              ELSE /\ analysis' = <<[emails |-> home_emails,
                                     contact_form |-> found,
                                     facebook_page |-> extract_facebook_from_website(soup[1]),
                                     logo_url |-> extract_logo_url_enhanced(soup[1],
                                                                            website_url)]>>
                   /\ a_pc' = "done"
                   /\ UNCHANGED a_raised
    /\ UNCHANGED <<website_url, soup, home_emails, page_index, fetched, last_fetch, failures,
                   positive_at, only_404, home_status, a_others>>

AnalyzeNext == AnalyzeStart \/ AnalyzeFetchHome \/ AnalyzeFetchContact \/ AnalyzeFinish

AnalyzeSpec == AnalyzeInit /\ [][AnalyzeNext]_vars

-----------------------------------------------------------------------------
(* Properties of analyze_website_content_serpapi *)

\* the URL of the i-th dedicated contact page of the site
TierUrl(i) == RStrip(website_url, "/") \o priority_contact_pages[i]

\* C1: once the homepage is fetched, the ten dedicated paths are requested one
\* after the other in the order of the list, each at most once; no path is
\* requested after the first one whose page answered 200 with a detection; and
\* detection runs on the homepage exactly when no path gave a detection.
TierOrderStrict ==
    /\ Len(fetched) <= 10
    /\ \A i \in 1..Len(fetched) : fetched[i] = TierUrl(i)
    /\ positive_at # 0 => Len(fetched) = positive_at
    /\ (a_pc = "done" /\ soup # <<>>) =>
          /\ homepage_checked <=> (positive_at = 0)
          /\ positive_at = 0 => Len(fetched) = 10

ThirdPathEndsScan ==
    /\ a_pc = "done"
    /\ positive_at = 3
    /\ fetched = <<"https://acme.com/contact-us", "https://acme.com/contact",
                   "https://acme.com/contact.html">>
    /\ failures = 1
    /\ ~homepage_checked
    /\ analysis[1].contact_form = "https://acme.com/contact.html"

\* C2: a request of the scan that raises or answers with a status other than
\* 200 counts as no match: the next path of the list is taken, the failed one
\* is not requested again, the failure does not take the call to the except
\* clause, and the addresses, the Facebook page and the logo of the homepage
\* are returned as they were computed.  (The call ends in the except clause
\* exactly when the logo extraction of line 156 raises, failed request or not.)
FailedContactFetchSkipped ==
    /\ [][(a_pc = "tier0" /\ failures' = failures + 1) =>
             /\ fetched' = Append(fetched, TierUrl(page_index))
             /\ page_index' = page_index + 1
             /\ a_pc' = IF page_index = 10 THEN "homepage" ELSE "tier0"
             /\ ~a_raised' /\ analysis' = <<>>
             /\ home_emails' = home_emails /\ soup' = soup /\ contact_form' = contact_form]_vars
    /\ []((a_pc = "done" /\ failures > 0) =>
             /\ a_raised <=> extract_logo_url_enhanced_raises(soup[1], website_url)
             /\ \A i, j \in 1..Len(fetched) : i # j => fetched[i] # fetched[j]
             /\ ~a_raised =>
                   /\ analysis[1].emails = home_emails
                   /\ analysis[1].facebook_page = extract_facebook_from_website(soup[1])
                   /\ analysis[1].logo_url = extract_logo_url_enhanced(soup[1], website_url))

AllTenFailedHomepageKept ==
    /\ a_pc = "done"
    /\ failures = 10
    /\ last_fetch = "error"
    /\ Len(fetched) = 10
    /\ homepage_checked
    /\ analysis[1].emails = <<"info@acme.com">>
    /\ analysis[1].facebook_page = "https://www.facebook.com/AcmeDental"
    /\ analysis[1].logo_url = "https://acme.com/img/logo.png"

\* C3: a non-empty locator is the URL of the page on which a rule fired (a
\* dedicated contact page or the homepage), except that the link rule gives
\* exactly the href of the anchor when that is absolute; and a locator is
\* non-empty only when a rule matched on an examined page.
LocatorIsFiringPage ==
    (a_pc = "done" /\ soup # <<>> /\ analysis[1].contact_form # "") =>
        /\ fired # <<>>
        /\ fired[1].url \in {website_url} \cup {TierUrl(i) : i \in 1..10}
        /\ contact_rule(fired[1].page) # "none"
        /\ LET page == fired[1].page
               link == page.links[Min(qualifying_links(page))]
           IN  analysis[1].contact_form =
                   IF contact_rule(page) = "link" /\ is_absolute_href(link.href)
                   THEN link.href
                   ELSE fired[1].url

-----------------------------------------------------------------------------
(* extract_facebook_from_website as a process: the loop of lines 436-452   *)
(* takes one candidate per step.                                           *)

\* number of anchors of a page given to the extractor
MaxLinks == 2

FbHrefs ==
    {"https://www.facebook.com/AcmeDental",
     "https://m.facebook.com/AcmeDental/?ref=site",
     "https://www.facebook.com/sharer/sharer.php?u=acme.com",
     "https://www.facebook.com/pages/Acme/123",
     "https://www.facebook.com/login",
     "https://www.facebook.com/abc",
     "https://www.facebook.com/home/photos",
     "https://acme.com/about"}

FbTexts == {"", "<p>Find us at http://facebook.com/ZenithCo today</p>"}

FbLinkLists == UNION {[1..n -> FbHrefs] : n \in 0..MaxLinks}

\* the page with the anchors hs followed by the text t
fb_input_page(hs, t) ==
    [EmptyPage EXCEPT
        !.html = Join([i \in 1..Len(hs) |-> "<a href=\"" \o hs[i] \o "\">Facebook</a>"], "") \o t,
        !.strings = [i \in 1..Len(hs) |-> "Facebook"],
        !.links = [i \in 1..Len(hs) |-> [href |-> hs[i], text |-> "Facebook"]]]

FbPages == {fb_input_page(hs, t) : hs \in FbLinkLists, t \in FbTexts}

FbInit ==
    /\ EmailIdle
    /\ VerifyIdle
    /\ AnalyzeIdle
    /\ DetectIdle
    /\ CsvIdle
    /\ FbVerifyIdle
    /\ ProcessIdle
    /\ f_pc = "links"
    /\ fb_page \in FbPages
    /\ facebook_list = <<>>
    /\ fb_index = 0
    /\ fb_result = <<>>
    /\ n_url = ""
    /\ n_once = <<>>
    /\ n_twice = <<>>

\* lines 421-433: the hrefs of the anchors, then the matches in the markup
FbCollect ==
    /\ f_pc = "links"
    /\ facebook_list' = facebook_links(fb_page)
    /\ fb_index' = 1
    /\ f_pc' = "loop"
    /\ UNCHANGED <<fb_page, fb_result, n_url, n_once, n_twice, f_others>>

\* lines 436-452: one candidate of the loop
FbExamine ==
    /\ f_pc = "loop"
    /\ fb_index <= Len(facebook_list)
    /\ IF fb_survives(facebook_list[fb_index])
       THEN /\ fb_result' = <<normalize_facebook_url(fb_clean(facebook_list[fb_index]))>>
            /\ f_pc' = "done"
            /\ UNCHANGED fb_index
       ELSE /\ fb_index' = fb_index + 1
            /\ UNCHANGED <<fb_result, f_pc>>
    /\ UNCHANGED <<fb_page, facebook_list, n_url, n_once, n_twice, f_others>>

\* line 454: no candidate was returned
FbNone ==
    /\ f_pc = "loop"
    /\ fb_index > Len(facebook_list)
    /\ fb_result' = <<"">>
    /\ f_pc' = "done"
    /\ UNCHANGED <<fb_page, facebook_list, fb_index, n_url, n_once, n_twice, f_others>>

FbNext == FbCollect \/ FbExamine \/ FbNone

FbSpec == FbInit /\ [][FbNext]_vars

\* the text after https://www.facebook.com/ in u, <<>> when u has another form
page_segment(u) ==
    IF StartsWith(u, "https://www.facebook.com/")
    THEN <<Slice(u, Len("https://www.facebook.com/") + 1, Len(u))>>
    ELSE <<>>

\* the candidate passes the exclusion of generic paths
not_generic(fb_url) ==
    ~ContainsAny(Lower(fb_url), {"/sharer", "/tr?", "/plugins", "/dialog", "/pages"})

\* C11: a non-empty value returned by extract_facebook_from_website is
\* https://www.facebook.com/<pageSegment>, the segment being one path segment
\* longer than 3 characters that is not home, login, signup, help or about
\* and does not start with "pages"; and it is built from the first candidate,
\* anchors first and markup matches after, that passed exclusion and validation.
FacebookValueCanonical ==
    (f_pc = "done" /\ fb_result[1] # "") =>
        /\ page_segment(fb_result[1]) # <<>>
        /\ LET seg == page_segment(fb_result[1])[1]
           IN  /\ Len(seg) > 3
               /\ ~ContainsAny(seg, {"/", "?"})
               /\ Lower(seg) \notin {"home", "login", "signup", "help", "about"}
               /\ ~StartsWith(Lower(seg), "pages")
        /\ facebook_list = facebook_links(fb_page)
        /\ fb_index \in 1..Len(facebook_list)
        /\ \A j \in 1..(fb_index - 1) : ~fb_survives(facebook_list[j])
        /\ not_generic(facebook_list[fb_index])

-----------------------------------------------------------------------------
(* normalize_facebook_url applied to a URL and then to its own result *)

NormSchemes == {"https://", "http://", ""}

NormHosts ==
    {"m.facebook.com", "www.facebook.com", "facebook.com", "m.m.facebook.com",
     "FACEBOOK.com", "example.com"}

NormPaths == {"", "/", "/somepage", "/somepage/", "/pages/Acme/12", "/m.m.facebook.com"}

NormQueries == {"", "?ref=123&foo=bar"}

NormUrls ==
    {sch \o host \o path \o query :
        sch \in NormSchemes, host \in NormHosts, path \in NormPaths, query \in NormQueries}

NormInit ==
    /\ EmailIdle
    /\ VerifyIdle
    /\ AnalyzeIdle
    /\ DetectIdle
    /\ CsvIdle
    /\ FbVerifyIdle
    /\ ProcessIdle
    /\ f_pc = "once"
    /\ fb_page = <<>>
    /\ facebook_list = <<>>
    /\ fb_index = 0
    /\ fb_result = <<>>
    /\ n_url \in NormUrls
    /\ n_once = <<>>
    /\ n_twice = <<>>

NormOnce ==
    /\ f_pc = "once"
    /\ n_once' = <<normalize_facebook_url(n_url)>>
    /\ f_pc' = "twice"
    /\ UNCHANGED <<fb_page, facebook_list, fb_index, fb_result, n_url, n_twice, f_others>>

NormTwice ==
    /\ f_pc = "twice"
    /\ n_twice' = <<normalize_facebook_url(n_once[1])>>
    /\ f_pc' = "normalized"
    /\ UNCHANGED <<fb_page, facebook_list, fb_index, fb_result, n_url, n_once, f_others>>

NormNext == NormOnce \/ NormTwice

NormSpec == NormInit /\ [][NormNext]_vars

\* the example of the claim taken alone
NormalizeExample ==
    (n_url = "https://m.facebook.com/somepage?ref=123&foo=bar" /\ n_once # <<>>) =>
        n_once[1] = "https://www.facebook.com/somepage"

\* C12: https://m.facebook.com/somepage?ref=123&foo=bar is mapped to
\* https://www.facebook.com/somepage, and normalizing the result of a
\* normalization gives that result again, whatever the URL.
NormalizeIdempotent ==
    /\ NormalizeExample
    /\ n_twice # <<>> => n_twice[1] = n_once[1]

-----------------------------------------------------------------------------
(* The classifier end to end *)

\* every one of the ten dedicated paths was requested and answered 404
AllTier0NotFound == a_pc = "done" /\ soup # <<>> /\ Len(fetched) = 10 /\ only_404

\* C13: when the ten dedicated paths all answer 404, (1) a homepage whose
\* form has name, e-mail and message fields and 4 inputs gives the URL of the
\* homepage; (2) the same homepage with the form cut to 2 inputs and an
\* appointment-request button gives the URL of the homepage too; (3) with the
\* 2-input form and no such button the locator is empty.
EndToEndHomepageFallback ==
    AllTier0NotFound =>
        /\ soup[1] = PageHomeForm => analysis[1].contact_form = website_url
        /\ soup[1] = PageHomeShortFormButton => analysis[1].contact_form = website_url
        /\ soup[1] = PageHomeShortForm => analysis[1].contact_form = ""

ShortFormWithButtonLocated ==
    /\ AllTier0NotFound
    /\ failures = 10
    /\ homepage_checked
    /\ soup[1] = PageHomeShortFormButton
    /\ form_scan(soup[1]) = "none"
    /\ contact_rule(soup[1]) = "appointment_button"
    /\ website_url = "https://acme.com/"
    /\ analysis[1].contact_form = "https://acme.com/"

\* the two other homepages of the scenario are reached as well
FullFormLocated ==
    /\ AllTier0NotFound
    /\ soup[1] = PageHomeForm
    /\ contact_rule(soup[1]) = "form_fields"
    /\ analysis[1].contact_form = website_url

ShortFormAlone ==
    /\ AllTier0NotFound
    /\ soup[1] = PageHomeShortForm
    /\ analysis[1].contact_form = ""

-----------------------------------------------------------------------------
(* check_contact_forms_enhanced as a process: the loop of lines 209-262    *)
(* takes one form per step.                                                *)

\* number of forms on a page given to the detector
MaxForms == 2

\* the inputs of the forms: the first n of these
FormFields ==
    << Input("input", "name", "text", ""),
       Input("input", "email", "email", ""),
       Input("textarea", "message", "", "") >>

FormTexts == {"", "Contact us", "Book an appointment", "Patient login"}

FormActions == {"", "/contact/send"}

DetectForms ==
    {[text |-> t, action |-> a, inputs |-> SubSeq(FormFields, 1, n)] :
        t \in FormTexts, a \in FormActions, n \in 1..3}

input_markup(inp) ==
    "<" \o inp.tag \o " name=\"" \o inp.name \o "\" type=\"" \o inp.type \o "\">"
        \o (IF inp.tag = "textarea" THEN "</textarea>" ELSE "")

form_markup(form) ==
    "<form action=\"" \o form.action \o "\">" \o form.text
        \o Join([i \in 1..Len(form.inputs) |-> input_markup(form.inputs[i])], "")
        \o "</form>"

\* what a page has beside its forms: nothing, an appointment-request button,
\* or a trigger link with a modal container that holds an input
DetectExtras ==
    {[html |-> "", strings |-> <<>>, containers |-> <<>>],
     [html |-> "<button>Request Appointment</button>",
      strings |-> <<"Request Appointment">>, containers |-> <<>>],
     [html |-> "<span>Send Message</span><div class=\"modal\"><input name=\"q\"></div>",
      strings |-> <<"Send Message">>,
      containers |-> << [tag |-> "div", style |-> "", classes |-> <<"modal">>,
                         form_elements |-> 1] >>]}

\* the page with the forms fs followed by the elements of extra
detect_input_page(fs, extra) ==
    [EmptyPage EXCEPT
        !.html = Join([i \in 1..Len(fs) |-> form_markup(fs[i])], "") \o extra.html,
        !.strings = extra.strings,
        !.containers = extra.containers,
        !.forms = fs]

DetectPages ==
    {detect_input_page(fs, extra) :
        fs \in UNION {[1..n -> DetectForms] : n \in 0..MaxForms}, extra \in DetectExtras}

DetectInit ==
    /\ EmailIdle
    /\ VerifyIdle
    /\ AnalyzeIdle
    /\ FbIdle
    /\ CsvIdle
    /\ FbVerifyIdle
    /\ ProcessIdle
    /\ d_pc = "modal"
    /\ d_page \in DetectPages
    /\ d_url = "https://acme.com/contact"
    /\ form_index = 0
    /\ appointment_form_found = FALSE
    /\ d_rule = ""
    /\ d_result = <<>>

\* Priority 1, lines 177-203
DetectModal ==
    /\ d_pc = "modal"
    /\ IF modal_rule(d_page)
       THEN d_rule' = "modal" /\ d_result' = <<d_url>> /\ d_pc' = "done" /\ UNCHANGED form_index
       ELSE form_index' = 1 /\ d_pc' = "forms" /\ UNCHANGED <<d_rule, d_result>>
    /\ UNCHANGED <<d_page, d_url, appointment_form_found, d_others>>

\* lines 209-262: one form of the loop
DetectForm ==
    /\ d_pc = "forms"
    /\ form_index <= Len(d_page.forms)
    /\ LET verdict == form_verdict(d_page.forms[form_index])
       IN  IF verdict \in form_returns
           THEN /\ d_rule' = verdict
                /\ d_result' = <<d_url>>
                /\ d_pc' = "done"
                /\ UNCHANGED <<form_index, appointment_form_found>>
           ELSE /\ appointment_form_found' = (appointment_form_found \/ verdict = "appointment")
                /\ form_index' = form_index + 1
                /\ UNCHANGED <<d_rule, d_result, d_pc>>
    /\ UNCHANGED <<d_page, d_url, d_others>>

\* lines 264-266: after the loop
DetectAfterForms ==
    /\ d_pc = "forms"
    /\ form_index > Len(d_page.forms)
    /\ IF appointment_form_found
       THEN d_rule' = "appointment_form" /\ d_result' = <<d_url>> /\ d_pc' = "done"
       ELSE d_pc' = "rest" /\ UNCHANGED <<d_rule, d_result>>
    /\ UNCHANGED <<d_page, d_url, form_index, appointment_form_found, d_others>>

\* lines 268-321: the rules after the forms
DetectRest ==
    /\ d_pc = "rest"
    /\ d_rule' = contact_rule(d_page)
    /\ d_result' = <<check_contact_forms_enhanced(d_page, d_url)>>
    /\ d_pc' = "done"
    /\ UNCHANGED <<d_page, d_url, form_index, appointment_form_found, d_others>>

DetectNext == DetectModal \/ DetectForm \/ DetectAfterForms \/ DetectRest

DetectSpec == DetectInit /\ [][DetectNext]_vars

\* the steps give what the function as a whole gives
DetectStepsAgree ==
    d_pc = "done" =>
        /\ d_rule = contact_rule(d_page)
        /\ d_result = <<check_contact_forms_enhanced(d_page, d_url)>>

\* the form of the page whose test made the function return, when one did
returning_form == d_page.forms[form_index]

\* C14: a form with exactly 2 input, textarea or select fields never makes
\* check_contact_forms_enhanced return from the scan of the forms, by the
\* keyword branch, the name, e-mail and message branch or the action branch,
\* even when the text of the form contains "contact".
TwoInputFormNeverQualifies ==
    /\ \A form \in DetectForms : Len(form.inputs) = 2 => form_verdict(form) \notin form_returns
    /\ d_rule \in form_returns => Len(returning_form.inputs) # 2

TwoInputContactFormPassedOver ==
    /\ d_pc = "done"
    /\ Len(d_page.forms) = 1
    /\ Len(d_page.forms[1].inputs) = 2
    /\ d_page.forms[1].text = "Contact us"
    /\ d_page.forms[1].action = "/contact/send"
    /\ form_index = 2
    /\ d_rule = "none"
    /\ d_result = <<"">>

-----------------------------------------------------------------------------
(* create_csv_download_serpapi: the header of the CSV text.  A record is   *)
(* given by the list of its keys, in the order of the dict; the rows that  *)
(* follow the header are not modelled.                                     *)

\* number of records given to the function
MaxRecords == 2

\* line 799
ordered_fieldnames ==
    <<"name", "street_address", "city", "state", "zip_code", "phone", "website", "emails",
      "contact_form", "facebook_page", "rating", "reviews", "hours", "logo_url">>

CsvRecords ==
    {<<"name">>,
     <<"name", "phone", "website">>,
     <<"name", "address", "phone">>,
     <<"name", "address", "notes", "owner_info">>,
     <<"name", "website", "owner_info", "address">>,
     <<"name", "category", "emails", "notes">>,
     <<"name", "city, state", "say \"hi\"">>}

CsvInputs == UNION {[1..n -> CsvRecords] : n \in 0..MaxRecords}

\* the characters that make the writer quote a field: the delimiter, the
\* quote character and the characters of the line terminator
quoting_chars == {",", "\"", "\r", "\n"}

\* one field as csv.writer writes it (QUOTE_MINIMAL, doublequote)
csv_field(name) ==
    IF CharsOf(name) \cap quoting_chars # {}
    THEN "\"" \o ReplaceAll(name, "\"", "\"\"") \o "\""
    ELSE name

\* writer.writeheader(): the fields joined by commas and ended by '\r\n'; a
\* row of one empty field is written as a pair of quotes
header_line(names) ==
    IF names = <<"">> THEN "\"\"\r\n"
    ELSE Join([i \in 1..Len(names) |-> csv_field(names[i])], ",") \o "\r\n"

CsvInit ==
    /\ EmailIdle
    /\ VerifyIdle
    /\ AnalyzeIdle
    /\ FbIdle
    /\ DetectIdle
    /\ FbVerifyIdle
    /\ ProcessIdle
    /\ c_pc = "start"
    /\ csv_results \in CsvInputs
    /\ all_fieldnames = {}
    /\ to_visit = {}
    /\ fieldnames = <<>>
    /\ csv_output = <<>>

\* lines 793-799
CsvStart ==
    /\ c_pc = "start"
    /\ IF Len(csv_results) = 0
       THEN csv_output' = <<"None">> /\ c_pc' = "done" /\ UNCHANGED fieldnames
       ELSE fieldnames' = ordered_fieldnames /\ c_pc' = "collect" /\ UNCHANGED csv_output
    /\ UNCHANGED <<csv_results, all_fieldnames, to_visit, c_others>>

\* lines 802-804
CsvCollect ==
    /\ c_pc = "collect"
    /\ all_fieldnames' = UNION {Range(csv_results[i]) : i \in 1..Len(csv_results)}
    /\ to_visit' = all_fieldnames'
    /\ c_pc' = "extend"
    /\ UNCHANGED <<csv_results, fieldnames, csv_output, c_others>>

\* lines 807-809: one field of the set; the order in which a set of strings
\* is listed depends on the hash seed of the process
CsvExtend ==
    /\ c_pc = "extend"
    /\ \E field \in to_visit :
          /\ to_visit' = to_visit \ {field}
          /\ fieldnames' = IF field \notin Range(fieldnames) THEN Append(fieldnames, field)
                           ELSE fieldnames
    /\ UNCHANGED <<c_pc, csv_results, all_fieldnames, csv_output, c_others>>

\* lines 811-819
CsvWrite ==
    /\ c_pc = "extend"
    /\ to_visit = {}
    /\ csv_output' = <<"text", header_line(fieldnames)>>
    /\ c_pc' = "done"
    /\ UNCHANGED <<csv_results, all_fieldnames, to_visit, fieldnames, c_others>>

CsvNext == CsvStart \/ CsvCollect \/ CsvExtend \/ CsvWrite

CsvSpec == CsvInit /\ [][CsvNext]_vars

\* the keys of the records in the order in which a walk of the records,
\* first to last, each in the order of its keys, meets them first
RECURSIVE discovery_order(_, _)
discovery_order(records, seen) ==
    IF Len(records) = 0 THEN seen
    ELSE LET keys == Head(records)
             fresh == SelectSeq(keys, LAMBDA k : k \notin Range(seen))
         IN  discovery_order(Tail(records), seen \o fresh)

\* C15: the header is name, street_address, city, state, zip_code, phone,
\* website, emails, contact_form, facebook_page, rating, reviews, hours,
\* logo_url in that order, then every other field of the records once each in
\* the order in which a walk of the records discovers them, so that the same
\* records always give the same header.
CsvHeaderInDiscoveryOrder ==
    (c_pc = "done" /\ Len(csv_results) > 0) =>
        csv_output = <<"text", header_line(discovery_order(csv_results, ordered_fieldnames))>>

\* the part of C15 that does not depend on the order of the set
CsvHeaderFieldsOnce ==
    (c_pc = "done" /\ Len(csv_results) > 0) =>
        /\ SubSeq(fieldnames, 1, 14) = ordered_fieldnames
        /\ Range(fieldnames) = Range(ordered_fieldnames) \cup all_fieldnames
        /\ \A i, j \in 1..Len(fieldnames) : i # j => fieldnames[i] # fieldnames[j]

-----------------------------------------------------------------------------
(* Failure of the homepage request *)

\* the request of line 123 raised, or was answered with an error status
homepage_fetch_failed == home_status = -1 \/ (home_status >= 400 /\ home_status < 600)

\* C16: when the request of the homepage raises or is answered with an HTTP
\* error status, analyze_website_content_serpapi still returns a record, the
\* one with no address and an empty contact_form, facebook_page and logo_url,
\* and no dedicated contact path is requested; no call ends without a record.
HomepageFailureContained ==
    /\ a_pc = "done" => Len(analysis) = 1
    /\ homepage_fetch_failed =>
          /\ a_pc = "done"
          /\ analysis = <<[emails |-> <<>>, contact_form |-> "", facebook_page |-> "",
                           logo_url |-> ""]>>
          /\ fetched = <<>>
          /\ soup = <<>>

HomepageNotFoundReturned ==
    /\ a_pc = "done"
    /\ website_url = "https://acme.com"
    /\ home_status = 404
    /\ a_raised
    /\ fetched = <<>>
    /\ analysis[1].emails = <<>>
    /\ analysis[1].contact_form = ""

\* the request that raises is reached as well
HomepageUnreachableReturned ==
    /\ a_pc = "done"
    /\ home_status = -1
    /\ a_raised
    /\ analysis = <<empty_analysis>>

-----------------------------------------------------------------------------
(* The appointment fallback of the scan of the forms *)

\* the text of the form suggests an appointment
has_appointment_text(form) ==
    ContainsAny(Lower(form.text), {"appointment", "schedule", "book", "patient"})

\* the form makes the scan return
form_qualifies(form) == form_verdict(form) \in form_returns

no_form_qualifies == \A i \in 1..Len(d_page.forms) : ~form_qualifies(d_page.forms[i])

\* the fallback is not taken beside a qualifying form, and it is taken only
\* after the last form was examined
FallbackOnlyAfterScan ==
    /\ d_rule = "appointment_form" => no_form_qualifies /\ form_index = Len(d_page.forms) + 1
    /\ (d_pc = "forms" /\ appointment_form_found) => d_result = <<>>

\* C17 as stated: if any form of the page has text suggesting an appointment
\* and no form of the page qualifies as a contact form, the URL of the page is
\* returned; the fallback is never taken when some form qualifies, and seeing
\* an appointment form does not end the scan.
AppointmentFallbackAnyForm ==
    /\ (/\ d_pc = "done"
        /\ \E i \in 1..Len(d_page.forms) : has_appointment_text(d_page.forms[i])
        /\ no_form_qualifies)
          => d_result = <<d_url>>
    /\ FallbackOnlyAfterScan

\* C17: if any form of the page that the scan does not pass over (2 inputs or
\* more, none of the disqualifying words, not a search form of at most 2
\* inputs) has text suggesting an appointment and no form of the page
\* qualifies as a contact form, the URL of the page is returned; the fallback
\* is never taken when some form qualifies, and seeing an appointment form
\* does not end the scan.
AppointmentFallbackSeenForm ==
    /\ (/\ d_pc = "done"
        /\ \E i \in 1..Len(d_page.forms) :
              ~form_skipped(d_page.forms[i]) /\ has_appointment_text(d_page.forms[i])
        /\ no_form_qualifies)
          => d_result = <<d_url>>
    /\ FallbackOnlyAfterScan

AppointmentFallbackTaken ==
    /\ d_pc = "done"
    /\ d_rule = "appointment_form"
    /\ d_result = <<d_url>>
    /\ Len(d_page.forms) = 2
    /\ d_page.forms[1].text = "Book an appointment"
    /\ Len(d_page.forms[1].inputs) = 2
    /\ d_page.forms[2].text = ""
    /\ d_page.strings = <<>>
    /\ form_index = 3

\* a form that is passed over is not seen as an appointment form
SkippedAppointmentFormIgnored ==
    /\ d_pc = "done"
    /\ Len(d_page.forms) = 1
    /\ d_page.forms[1].text = "Book an appointment"
    /\ Len(d_page.forms[1].inputs) = 1
    /\ d_result = <<"">>

-----------------------------------------------------------------------------
(* verify_facebook_with_claude, followed by the statement of               *)
(* process_companies_with_serpapi that uses its value (lines 761-767)      *)

\* return True of line 558
fb_verify_without_client == TRUE

\* variant: a status other than 200 accepts the page
fb_verify_on_bad_status_accept == TRUE

\* return False of line 566
fb_verify_on_bad_status == FALSE

\* return False of line 604
fb_verify_on_error == FALSE

FoundFacebookUrls ==
    {"https://www.facebook.com/AcmeDental", "https://www.facebook.com/zenithco",
     "https://www.facebook.com/pages", "https://www.facebook.com/AcmeDentalCare",
     "https://www.facebook.com/acme.dental.5"}

FbVerifyInit ==
    /\ EmailIdle
    /\ VerifyIdle
    /\ AnalyzeIdle
    /\ FbIdle
    /\ DetectIdle
    /\ CsvIdle
    /\ ProcessIdle
    /\ g_pc = "client"
    /\ g_client \in BOOLEAN
    /\ g_url \in FoundFacebookUrls
    /\ g_status = 0
    /\ g_answer = <<>>
    /\ g_judge_calls = 0
    /\ g_raised = ""
    /\ g_result = <<>>
    /\ g_recorded = <<>>

\* the except clause of lines 603-604
FbVerifyRaise(step) ==
    /\ g_raised' = step
    /\ g_result' = <<fb_verify_on_error>>
    /\ g_pc' = "returned"

\* lines 557-558
FbVerifyClient ==
    /\ g_pc = "client"
    /\ IF ~g_client
       THEN g_result' = <<fb_verify_without_client>> /\ g_pc' = "returned"
       ELSE g_result' = g_result /\ g_pc' = "fetch"
    /\ UNCHANGED <<g_client, g_url, g_status, g_answer, g_judge_calls, g_raised,
                   g_recorded, g_others>>

\* lines 564-566: the request raises, or is answered with a status
FbVerifyFetch ==
    /\ g_pc = "fetch"
    /\ \/ FbVerifyRaise("fetch") /\ UNCHANGED g_status
       \/ \E st \in Statuses :
             /\ g_status' = st
             /\ IF st # 200
                THEN g_result' = <<fb_verify_on_bad_status>> /\ g_pc' = "returned"
                ELSE g_result' = g_result /\ g_pc' = "parse"
             /\ UNCHANGED g_raised
    /\ UNCHANGED <<g_client, g_url, g_answer, g_judge_calls, g_recorded, g_others>>

\* lines 569-592: parsing the page raises, or the prompt is built
FbVerifyParse ==
    /\ g_pc = "parse"
    /\ \/ FbVerifyRaise("parse")
       \/ g_pc' = "judge" /\ UNCHANGED <<g_raised, g_result>>
    /\ UNCHANGED <<g_client, g_url, g_status, g_answer, g_judge_calls, g_recorded,
                   g_others>>

\* lines 594-601: the call raises, the message has no content, or the answer
\* is read
FbVerifyJudge ==
    /\ g_pc = "judge"
    /\ g_judge_calls' = g_judge_calls + 1
    /\ \/ FbVerifyRaise("judge") /\ UNCHANGED g_answer
       \/ \E text \in JudgeAnswers :
             /\ g_answer' = <<text>>
             /\ g_result' = <<judge_says_yes(text)>>
             /\ g_pc' = "returned"
             /\ UNCHANGED g_raised
    /\ UNCHANGED <<g_client, g_url, g_status, g_recorded, g_others>>

\* lines 763-767 of process_companies_with_serpapi: the page found by the
\* search is recorded when the verification accepted it
FbVerifyRecord ==
    /\ g_pc = "returned"
    /\ g_recorded' = IF g_result[1] THEN <<g_url>> ELSE <<"">>
    /\ g_pc' = "recorded"
    /\ UNCHANGED <<g_client, g_url, g_status, g_answer, g_judge_calls, g_raised,
                   g_result, g_others>>

FbVerifyNext ==
    FbVerifyClient \/ FbVerifyFetch \/ FbVerifyParse \/ FbVerifyJudge \/ FbVerifyRecord

FbVerifySpec == FbVerifyInit /\ [][FbVerifyNext]_vars

\* the request of the Facebook page raised or was answered with another
\* status than 200
facebook_fetch_failed == g_raised = "fetch" \/ g_status \notin {0, 200}

\* C18: with a client, verify_facebook_with_claude rejects when the request
\* of the Facebook page is answered with a status other than 200 and when any
\* step raises, and otherwise accepts exactly when the answer of the judge is
\* affirmative; a page found by the search is not recorded after a failed
\* request.
FacebookVerificationFailsClosed ==
    /\ (g_pc \in {"returned", "recorded"} /\ g_client) =>
          /\ g_status \notin {0, 200} => (g_result = <<FALSE>> /\ g_judge_calls = 0)
          /\ g_raised # "" => g_result = <<FALSE>>
          /\ (g_raised = "" /\ g_status = 200) =>
                /\ g_judge_calls = 1
                /\ g_answer # <<>>
                /\ g_result = <<Contains(Upper(g_answer[1]), "YES")>>
    /\ g_pc = "recorded" =>
          /\ facebook_fetch_failed => g_recorded = <<"">>
          /\ g_recorded \in {<<"">>, <<g_url>>}
          /\ g_recorded = <<g_url>> <=> g_result = <<TRUE>>

FacebookNotFoundNotRecorded ==
    /\ g_pc = "recorded"
    /\ g_client
    /\ g_status = 404
    /\ g_raised = ""
    /\ g_judge_calls = 0
    /\ g_result = <<FALSE>>
    /\ g_recorded = <<"">>

\* the other cases of the claim are reached as well
FacebookErrorNotRecorded ==
    /\ g_pc = "recorded" /\ g_client /\ g_raised = "judge" /\ g_recorded = <<"">>

FacebookJudgedAndRecorded ==
    /\ g_pc = "recorded" /\ g_client /\ g_status = 200
    /\ g_answer = <<"Yes, this is the company.">>
    /\ g_recorded = <<g_url>>

\* ---------------------------------------------------------------------------
\* process_companies_with_serpapi (lines 690-789): the loop over the companies.
\* A company is a record of main's df.to_dict('records') (lines 855-856): a
\* function from column names to cell values.  A cell is a string, or the
\* float NaN that pandas puts in an empty cell of a column that exists.
\* ---------------------------------------------------------------------------

MaxCompanies == 2
MaxCandidates == 2

\* the float NaN of an empty cell; every other cell value is a str
NaN == "float('nan')"

is_str(value) == value # NaN

\* dict.get(key, default)
Get(record, key, default) == IF key \in DOMAIN record THEN record[key] ELSE default

\* record[key] = value
SetKey(record, key, value) ==
    [k \in DOMAIN record \cup {key} |-> IF k = key THEN value ELSE record[k]]

\* the truth value of a cell: a str is true when it is not empty, NaN is true
Truthy(value) == value # ""

\* line 718: the words that stand for "no website"
no_website_words == {"", "nan", "none", "null"}

\* line 718, applied to the stripped cell
has_existing_website(existing_website) ==
    /\ Truthy(existing_website)
    /\ Lower(existing_website) \notin no_website_words

CompanyRecords ==
    { [name |-> "Acme Dental", website |-> " https://acme.com "],
      [name |-> "Zenith Co"],
      [name |-> "Blank Co", website |-> "NaN"],
      [name |-> "Empty Co", website |-> NaN],
      [name |-> "Page Co", website |-> "https://pageco.com",
       facebook_page |-> "https://www.facebook.com/PageCo"] }

\* what search_with_serpapi can return: at most MaxCandidates root domains,
\* as the provider ranks them (lines 92-101)
CandidateSites == {"https://acme-dental.com", "https://acmedental.org"}

SearchResults ==
    UNION { [1..n -> CandidateSites] : n \in 0..MaxCandidates }

\* what analyze_website_content_serpapi can return
found_analysis ==
    [emails |-> <<"info@acme.com">>,
     contact_form |-> "https://acme.com/contact",
     facebook_page |-> "https://www.facebook.com/AcmeDental",
     logo_url |-> "https://acme.com/img/logo.png"]

AnalysisResults == {empty_analysis, found_analysis}

\* what search_facebook_page_serpapi can return (lines 680-688)
FacebookSearchResults == {"", "https://www.facebook.com/ZenithCo"}

owner_info_text == "Owner extraction temporarily disabled"

\* the columns the loop writes (lines 720-770)
written_keys == {"website", "emails", "contact_form", "logo_url", "facebook_page", "owner_info"}

ProcessInit ==
    /\ EmailIdle
    /\ VerifyIdle
    /\ AnalyzeIdle
    /\ FbIdle
    /\ DetectIdle
    /\ CsvIdle
    /\ FbVerifyIdle
    /\ p_pc = "start"
    /\ companies \in UNION { [1..n -> CompanyRecords] : n \in 1..MaxCompanies }
    /\ given = companies
    /\ p_i = 1
    /\ result = <<>>
    /\ results = <<>>
    /\ websites = <<>>
    /\ w_index = 0
    /\ search_calls = 0
    /\ verify_log = <<>>
    /\ verdicts = <<>>
    /\ fb_found = <<>>
    /\ p_raised = ""
    /\ p_analysis = <<>>
    /\ fb_search_calls = 0
    /\ fb_verdicts = <<>>

\* line 707: result is a copy of the company, so a write to result is not a
\* write to the input record
result_is_copy == TRUE

\* result[...] = ... for the current company
Store(new_result) ==
    /\ result' = new_result
    /\ companies' = IF result_is_copy THEN companies
                    ELSE [companies EXCEPT ![p_i] = new_result]

\* line 784: the handler appends the current result
handler_drops == FALSE
handler_appends == TRUE

\* the position after the iteration of company p_i
NextCompany == IF p_i = Len(companies) THEN "done" ELSE "start"

\* lines 775-780: the iteration ends normally
ProcessAppend(new_result) ==
    /\ Store(new_result)
    /\ results' = Append(results, new_result)
    /\ p_i' = p_i + 1
    /\ p_pc' = NextCompany

\* lines 782-784: a step of the try block raised
ProcessRaise(step) ==
    /\ p_raised' = step
    /\ results' = IF handler_appends THEN Append(results, result) ELSE results
    /\ p_i' = p_i + 1
    /\ p_pc' = NextCompany
    /\ UNCHANGED <<companies, result>>

\* lines 701-713: the next company, result = company.copy()
ProcessStart ==
    /\ p_pc = "start"
    /\ p_i <= Len(companies)
    /\ result' = companies[p_i]
    /\ p_pc' = "website"
    /\ websites' = <<>>
    /\ w_index' = 0
    /\ search_calls' = 0
    /\ verify_log' = <<>>
    /\ verdicts' = <<>>
    /\ fb_found' = <<>>
    /\ p_raised' = ""
    /\ p_analysis' = <<>>
    /\ fb_search_calls' = 0
    /\ fb_verdicts' = <<>>
    /\ UNCHANGED <<companies, given, p_i, results, p_others>>

\* lines 716-724: the website of the CSV.  .strip() of a float raises.
ProcessWebsite ==
    /\ p_pc = "website"
    /\ LET cell == Get(companies[p_i], "website", "")
       IN  IF ~is_str(cell)
           THEN ProcessRaise("website")
           ELSE LET existing_website == Strip(cell)
                IN  /\ IF has_existing_website(existing_website)
                       THEN /\ Store(SetKey(result, "website", existing_website))
                            /\ p_pc' = "analyze"
                       ELSE /\ p_pc' = "search"
                            /\ UNCHANGED <<companies, result>>
                    /\ UNCHANGED <<p_i, results, p_raised>>
    /\ UNCHANGED <<given, websites, w_index, search_calls, verify_log, verdicts, fb_found,
                   p_analysis, fb_search_calls, fb_verdicts, p_others>>

\* lines 725-727: the search for candidates
ProcessSearch ==
    /\ p_pc = "search"
    /\ search_calls' = search_calls + 1
    /\ \/ \E found \in SearchResults :
            /\ websites' = found
            /\ w_index' = IF found = <<>> THEN 0 ELSE 1
            /\ p_pc' = IF found = <<>> THEN "analyze" ELSE "verify"
            /\ UNCHANGED <<companies, p_i, result, results, p_raised>>
       \/ /\ ProcessRaise("search")
          /\ UNCHANGED <<websites, w_index>>
    /\ UNCHANGED <<given, verify_log, verdicts, fb_found, p_analysis, fb_search_calls,
                   fb_verdicts, p_others>>

\* lines 728-739: one candidate is verified; the loop ends at the first
\* accepted candidate or after the last one, and result['website'] is set
ProcessVerify ==
    /\ p_pc = "verify"
    /\ verify_log' = Append(verify_log, websites[w_index])
    /\ \/ \E accepted \in BOOLEAN :
            /\ verdicts' = Append(verdicts, accepted)
            /\ IF accepted
               THEN /\ Store(SetKey(result, "website", websites[w_index]))
                    /\ p_pc' = "analyze"
                    /\ UNCHANGED w_index
               ELSE IF w_index < Len(websites)
               THEN /\ w_index' = w_index + 1
                    /\ UNCHANGED <<p_pc, companies, result>>
               ELSE /\ Store(SetKey(result, "website", websites[1]))
                    /\ p_pc' = "analyze"
                    /\ UNCHANGED w_index
            /\ UNCHANGED <<p_i, results, p_raised>>
       \/ /\ ProcessRaise("verify")
          /\ UNCHANGED <<verdicts, w_index>>
    /\ UNCHANGED <<given, websites, search_calls, fb_found, p_analysis, fb_search_calls,
                   fb_verdicts, p_others>>

\* lines 744-754: the columns taken from the analysis
with_analysis(record, analysis_value) ==
    LET r1 == SetKey(record, "emails", Join(analysis_value.emails, ", "))
        r2 == SetKey(r1, "contact_form", analysis_value.contact_form)
        r3 == SetKey(r2, "logo_url", analysis_value.logo_url)
    IN  IF Truthy(analysis_value.facebook_page)
        THEN SetKey(r3, "facebook_page", analysis_value.facebook_page)
        ELSE r3

\* line 770
with_owner_info(record) == SetKey(record, "owner_info", owner_info_text)

\* lines 741-758 and 772-773: the analysis of the website, when there is one
ProcessAnalyze ==
    /\ p_pc = "analyze"
    /\ IF ~Truthy(Get(result, "website", ""))
       THEN /\ ProcessAppend(result)
            /\ UNCHANGED <<p_raised, p_analysis>>
       ELSE \/ \E analysis_value \in AnalysisResults :
                 LET analysed == with_analysis(result, analysis_value)
                 IN  /\ p_analysis' = <<analysis_value>>
                     /\ IF ~Truthy(Get(analysed, "facebook_page", ""))
                        THEN /\ Store(analysed)
                             /\ p_pc' = "fb_search"
                             /\ UNCHANGED <<p_i, results, p_raised>>
                        ELSE /\ ProcessAppend(with_owner_info(analysed))
                             /\ UNCHANGED p_raised
            \/ /\ ProcessRaise("analysis")
               /\ UNCHANGED p_analysis
    /\ UNCHANGED <<given, websites, w_index, search_calls, verify_log, verdicts, fb_found,
                   fb_search_calls, fb_verdicts, p_others>>

\* lines 759-761: the search for a Facebook page
ProcessFbSearch ==
    /\ p_pc = "fb_search"
    /\ fb_search_calls' = fb_search_calls + 1
    /\ \/ \E facebook_search_result \in FacebookSearchResults :
            /\ fb_found' = <<facebook_search_result>>
            /\ IF Truthy(facebook_search_result)
               THEN /\ p_pc' = "fb_verify"
                    /\ UNCHANGED <<companies, p_i, result, results>>
               ELSE ProcessAppend(with_owner_info(result))
            /\ UNCHANGED p_raised
       \/ /\ ProcessRaise("fb_search")
          /\ UNCHANGED fb_found
    /\ UNCHANGED <<given, websites, w_index, search_calls, verify_log, verdicts, p_analysis,
                   fb_verdicts, p_others>>

\* lines 763-770: the verification of the page the search found
ProcessFbVerify ==
    /\ p_pc = "fb_verify"
    /\ \/ \E accepted \in BOOLEAN :
            /\ fb_verdicts' = Append(fb_verdicts, IF accepted THEN "accepted" ELSE "rejected")
            /\ ProcessAppend(with_owner_info(
                   IF accepted THEN SetKey(result, "facebook_page", fb_found[1])
                   ELSE result))
            /\ UNCHANGED p_raised
       \/ /\ fb_verdicts' = Append(fb_verdicts, "raised")
          /\ ProcessRaise("fb_verify")
    /\ UNCHANGED <<given, websites, w_index, search_calls, verify_log, verdicts, fb_found,
                   p_analysis, fb_search_calls, p_others>>

ProcessNext ==
    \/ ProcessStart
    \/ ProcessWebsite
    \/ ProcessSearch
    \/ ProcessVerify
    \/ ProcessAnalyze
    \/ ProcessFbSearch
    \/ ProcessFbVerify

ProcessSpec == ProcessInit /\ [][ProcessNext]_vars

\* ---------------------------------------------------------------------------
\* Properties of the loop
\* ---------------------------------------------------------------------------

\* a result record made from a company: every input column kept, the columns
\* that the loop does not write unchanged, nothing added but written columns
derived_from(record, company) ==
    /\ DOMAIN company \subseteq DOMAIN record
    /\ DOMAIN record \subseteq DOMAIN company \cup written_keys
    /\ \A k \in DOMAIN company \ written_keys : record[k] = company[k]

\* C19: process_companies_with_serpapi returns exactly one result record per
\* input company, in input order.  Whatever succeeded or raised (the website
\* cell, the search, the verification, the analysis, the Facebook steps), the
\* results so far are the records of the companies handled so far, the i-th
\* derived from the i-th company; the loop never stops before the last company
\* and ends with as many results as companies; the input records are unchanged.
OneRecordPerCompany ==
    /\ Len(results) = p_i - 1
    /\ \A k \in 1..Len(results) : derived_from(results[k], given[k])
    /\ p_pc = "done" <=> p_i = Len(given) + 1
    /\ p_pc # "done" => ENABLED ProcessNext
    /\ companies = given

\* the first company got a website from the search and then a step raised
\* before the analysis was stored; the second company was still handled to the
\* end, and both records were returned in order
FailureKeepsOrder ==
    /\ p_pc = "done"
    /\ Len(results) = 2
    /\ "website" \notin DOMAIN given[1]
    /\ "website" \in DOMAIN results[1]
    /\ "emails" \notin DOMAIN results[1]
    /\ results[1].name = given[1].name
    /\ results[2].name = given[2].name
    /\ "owner_info" \in DOMAIN results[2]
    /\ given[1].name # given[2].name

\* the company whose website has been chosen, and its record
selection_over ==
    \/ p_pc \in {"analyze", "fb_search", "fb_verify"}
    \/ /\ p_pc \in {"start", "done"}
       /\ p_i > 1
       /\ p_raised \notin {"search", "verify"}

selected_index == IF p_pc \in {"start", "done"} THEN p_i - 1 ELSE p_i

selected_record == IF p_pc \in {"start", "done"} THEN results[selected_index] ELSE result

\* the record names a website: the cell is not blank and not nan/none/null
names_website(company) ==
    LET cell == Get(company, "website", "")
    IN  IF is_str(cell) THEN has_existing_website(Strip(cell)) ELSE FALSE

\* the verifier was asked about the candidates in search order and stopped at
\* the first one it accepted
verified_in_order ==
    /\ Len(verify_log) = Len(verdicts)
    /\ Len(verify_log) <= Len(websites)
    /\ \A j \in 1..Len(verify_log) : verify_log[j] = websites[j]
    /\ \A j \in 1..(Len(verdicts) - 1) : ~verdicts[j]
    /\ websites # <<>> =>
          /\ verdicts # <<>>
          /\ verdicts[Len(verdicts)] \/ Len(verdicts) = Len(websites)

\* the candidate the loop takes: the accepted one, else the first
chosen_candidate ==
    IF verdicts[Len(verdicts)] THEN websites[Len(verdicts)] ELSE websites[1]

selection_of(company, record) ==
    IF names_website(company)
    THEN /\ record.website = Strip(company.website)
         /\ search_calls = 0
         /\ verify_log = <<>>
    ELSE /\ search_calls = 1
         /\ verified_in_order
         /\ websites # <<>> => record.website = chosen_candidate
         /\ websites = <<>> => Get(record, "website", "") = Get(company, "website", "")

\* C20: website selection.  A record that names a website (a cell that is not
\* blank and not nan/none/null) keeps it, and neither the search nor the
\* verifier is called for websites; for every other record the search is
\* called, its candidates are verified one at a time in search order up to the
\* first accepted one, which is used, or the first candidate is used when all
\* are rejected, so that no website is chosen only when the search returned
\* no candidate.
WebsiteSelection ==
    selection_over => selection_of(given[selected_index], selected_record)

\* the same for the records whose website cell is a str or is absent
WebsiteSelectionOfStrings ==
    (selection_over /\ is_str(Get(given[selected_index], "website", "")))
        => selection_of(given[selected_index], selected_record)

\* an empty website cell: the iteration raised at line 716, nothing was searched
EmptyCellNotSearched ==
    /\ p_pc \in {"start", "done"}
    /\ p_i > 1
    /\ Get(given[p_i - 1], "website", "") = NaN
    /\ p_raised = "website"
    /\ search_calls = 0
    /\ results[p_i - 1] = given[p_i - 1]

\* every candidate was rejected and the first one was used
AllRejectedFirstUsed ==
    /\ p_pc = "analyze"
    /\ Len(websites) = 2
    /\ websites[1] # websites[2]
    /\ verdicts = <<FALSE, FALSE>>
    /\ result.website = websites[1]

\* the second candidate was accepted and used
SecondCandidateUsed ==
    /\ p_pc = "analyze"
    /\ Len(websites) = 2
    /\ websites[1] # websites[2]
    /\ verdicts = <<FALSE, TRUE>>
    /\ result.website = websites[2]

\* the website of the CSV was used, without a search
ExistingWebsiteUsed ==
    /\ p_pc = "analyze"
    /\ given[p_i].name = "Acme Dental"
    /\ result.website = "https://acme.com"
    /\ search_calls = 0

\* ---------------------------------------------------------------------------
\* The Facebook page of a company (lines 741-767)
\* ---------------------------------------------------------------------------

\* a company is being handled or has just been handled
company_in_hand == p_pc \notin {"start", "done"} \/ p_i > 1

\* the input record came with a Facebook page
facebook_supplied(company) == Truthy(Get(company, "facebook_page", ""))

\* the analysis of the website returned a Facebook page
analysis_supplied ==
    IF p_analysis = <<>> THEN FALSE ELSE Truthy(p_analysis[1].facebook_page)

\* the Facebook search or the Facebook verification was called for this company
facebook_calls_made == fb_search_calls > 0 \/ fb_verdicts # <<>>

facebook_determination(has_site, company, record) ==
    /\ facebook_calls_made =>
          /\ has_site
          /\ ~facebook_supplied(company)
          /\ p_analysis # <<>>
          /\ ~analysis_supplied
    /\ analysis_supplied =>
          /\ record.facebook_page = p_analysis[1].facebook_page
          /\ ~facebook_calls_made
    /\ fb_search_calls <= 1
    /\ Len(fb_verdicts) <= 1
    /\ fb_verdicts # <<>> =>
          /\ fb_search_calls = 1
          /\ fb_found # <<>>
          /\ Truthy(fb_found[1])
          /\ IF fb_verdicts[1] = "accepted"
             THEN record.facebook_page = fb_found[1]
             ELSE ~Truthy(Get(record, "facebook_page", ""))
    /\ (facebook_calls_made /\ fb_verdicts # <<"accepted">>) =>
          ~Truthy(Get(record, "facebook_page", ""))

\* C21: the Facebook page of a company.  The Facebook search and the Facebook
\* verification are called only when the record has a website (a cell that
\* is not blank and not nan/none/null) and neither the input record nor the
\* analysis of the website supplied a page; a page found on the website is
\* recorded without verification; a page found by the search is recorded only
\* when the verification accepted it; the verification is called at most once
\* for a company.
FacebookDetermination ==
    company_in_hand =>
        facebook_determination(names_website(selected_record),
                               given[selected_index], selected_record)

\* the same, with "has a website" read as the test of line 741: the website
\* cell of the result is true
FacebookDeterminationOfCell ==
    company_in_hand =>
        facebook_determination(Truthy(Get(selected_record, "website", "")),
                               given[selected_index], selected_record)

\* the cell 'NaN' named no website and the search found no candidate, yet a
\* Facebook page was searched, verified and recorded
FacebookWithoutWebsite ==
    /\ p_pc \in {"start", "done"}
    /\ p_i > 1
    /\ given[p_i - 1].name = "Blank Co"
    /\ search_calls = 1
    /\ websites = <<>>
    /\ results[p_i - 1].website = "NaN"
    /\ fb_verdicts = <<"accepted">>
    /\ results[p_i - 1].facebook_page = fb_found[1]

\* the page of the website was recorded, nothing was searched or verified
WebsitePageRecorded ==
    /\ p_pc \in {"start", "done"}
    /\ p_i > 1
    /\ analysis_supplied
    /\ results[p_i - 1].facebook_page = found_analysis.facebook_page
    /\ fb_search_calls = 0
    /\ fb_verdicts = <<>>

\* the page of the search was rejected and not recorded
RejectedPageNotRecorded ==
    /\ p_pc \in {"start", "done"}
    /\ p_i > 1
    /\ fb_verdicts = <<"rejected">>
    /\ Truthy(fb_found[1])
    /\ "facebook_page" \notin DOMAIN results[p_i - 1]

\* the page of the input record was kept, nothing was searched
SuppliedPageKept ==
    /\ p_pc \in {"start", "done"}
    /\ p_i > 1
    /\ given[p_i - 1].name = "Page Co"
    /\ p_analysis = <<empty_analysis>>
    /\ results[p_i - 1].facebook_page = given[p_i - 1].facebook_page
    /\ fb_search_calls = 0

====
